---------------------------- MODULE Spec2Model ----------------------------
(***************************************************************************)
(* SmallWorldMeshBackground (src/js/background-animation-smallworld.js):   *)
(* the animated small-world mesh, its shortcut manager, its boundary       *)
(* transition and its requestAnimationFrame loop, as a state machine.      *)
(*                                                                         *)
(* Units.  Lengths are integers counted in 1/UnitsPerPx of a pixel, so     *)
(* that the row height 60 * 0.866 = 51.96 px is the integer 1299.  The     *)
(* content bounds, which the ease-out interpolation makes fractional, are  *)
(* exact rationals <<n, d>> in pixels.  A shortcut's opacity is counted in *)
(* fade steps: the integer k stands for k / shortcutFadeDuration.          *)
(* Distances are kept squared (distSq), and compared with squared          *)
(* thresholds, instead of taking Math.sqrt.                                *)
(*                                                                         *)
(* Randomness.  Math.random() is an input: the lattice jitter is drawn     *)
(* from Jitter, the pair of draws of one sampling attempt from             *)
(* RandomPairs(side) (each draw r stands for Math.random() = r / RandDen), *)
(* the Poisson sample from 0 .. MaxSwaps, and the shuffle is any order.    *)
(*                                                                         *)
(* Motion.  The live position of a node is used for drawing only, so the   *)
(* nodes keep id, baseX, baseY and side, and one tracked node (probe)      *)
(* carries offsetX, offsetY, amplitude, x and y, in hundredths of a pixel. *)
(* Math.sin and Math.cos are inputs drawn from TrigValues (tenths).  The    *)
(* time accumulator this.time is counted in steps of 0.015 where it is     *)
(* tracked.                                                                *)
(*                                                                         *)
(* poissonRandom.  The sampler is also modelled on its own, as the         *)
(* operator PoissonRun on a limit L = Math.exp(-lambda) and a sequence of  *)
(* uniform draws; the variable poisson holds one call's inputs and result. *)
(*                                                                         *)
(* Drawing.  The variable drawn holds what the last drawConnections        *)
(* stroked, for one tracked node moving on its own and the others moving   *)
(* together.                                                               *)
(*                                                                         *)
(* Navigation menu and table controls.  NavigationMenu                     *)
(* (src/unnamed/part_001) dispatches the menuStateChange events the        *)
(* animator listens to; the variable nav holds its isOpen and what its     *)
(* last action dispatched.  The sortable, searchable class table of        *)
(* src/js/table-utils.js is the variable table.  Each of drawn, nav and    *)
(* table is Null in the specifications that do not follow it.              *)
(***************************************************************************)
EXTENDS Integers, Sequences, FiniteSets, TLC

VARIABLES
    canvasWidth, canvasHeight,      \* canvas.width / canvas.height (px)
    nodes,                          \* this.nodes: sequence, nodes[id + 1].id = id
    shortcuts,                      \* this.shortcuts: sequence of shortcut records
    frameCount,                     \* this.frameCount
    isAnimating, isPaused, isVisible,
    animationFrameId,               \* handle of the last scheduled tick, NoFrame for null
    rafQueue,                       \* ids of the requestAnimationFrame callbacks pending
    menuOpen, menuWidth,
    contentLeft, contentRight,      \* rationals (px)
    currentContentLeft, currentContentRight,
    targetContentLeft, targetContentRight,
    previousContentLeft, previousContentRight,
    isTransitioning,
    boundaryTransitionStart,        \* ms, NoStart for null
    now,                            \* performance.now() (ms)
    lastMarked,                     \* history: the shortcuts the last step marked fadingOut
    surface,                        \* what the constructor found: "ok", "missing" (no canvas), "mobile"
    probe,                          \* the motion fields of one tracked node, Null when none is tracked
    time,                           \* this.time in steps of 0.015, NoTime when it is not tracked
    poisson,                        \* one call of poissonRandom: its inputs and result, Null when none
    drawn,                          \* history: what the last drawConnections drew, Null when not followed
    nav,                            \* the NavigationMenu: isOpen and what its last action dispatched, Null when not followed
    table                           \* the table controls of src/js/table-utils.js, Null when not followed

vars == <<canvasWidth, canvasHeight, nodes, shortcuts, frameCount,
          isAnimating, isPaused, isVisible, animationFrameId, rafQueue,
          menuOpen, menuWidth, contentLeft, contentRight,
          currentContentLeft, currentContentRight,
          targetContentLeft, targetContentRight,
          previousContentLeft, previousContentRight,
          isTransitioning, boundaryTransitionStart, now, lastMarked,
          surface, probe, time, poisson, drawn, nav, table>>

meshVars == <<canvasWidth, canvasHeight, nodes, shortcuts, frameCount>>
loopVars == <<isAnimating, isPaused, isVisible, animationFrameId, rafQueue>>
menuVars == <<menuOpen, menuWidth>>
boundVars == <<contentLeft, contentRight,
               currentContentLeft, currentContentRight,
               targetContentLeft, targetContentRight,
               previousContentLeft, previousContentRight>>
transVars == <<isTransitioning, boundaryTransitionStart>>
animatorHost == <<surface, probe, time, poisson, drawn, table>>
hostVars == <<surface, probe, time, poisson, drawn, nav, table>>

-----------------------------------------------------------------------------
(* Program constants (constructor, init)                                   *)

contentWidth == 900
contentPadding == 50
shortcutDensityPct == 8
minShortcutDistance == 3
longDistanceThreshold == 6
maxLongShortcutsPerSide == 2
minLongShortcutsPerSide == 1
rewireCheckInterval == 60
shortcutFadeDuration == 45
boundaryTransitionDuration == 300
baseSpacing == 60
fadeWidth == 80
maxAttempts == 50
longAttempts == 100
mobileMaxWidth == 768

UnitsPerPx == 25
rowHeight == 1299
spacing == baseSpacing * UnitsPerPx

NoFrame == 0
NoStart == -1
NoTime == -1
Null == [none |-> TRUE]

-----------------------------------------------------------------------------
(* Bounds of the model                                                     *)

MaxFrames == 106
MaxSwaps == 2
MaxNow == 450

\* the window is resized only on a frame that follows a multiple of ResizeEvery
ResizeEvery == 30

\* in SpecSweep the menu changes state only in the last MenuWindow frames of
\* a run, while the shortcuts of the first rewiring check end their fades
MenuWindow == 4

\* in SpecMenu the frames stop at MenuFrames, before the first rewiring check
MenuFrames == 4

\* Math.random() takes the values r / RandDen, r \in 0 .. RandDen - 1
RandDen == 8

\* the uniform draws one call of poissonRandom can consume; the slowest
\* sequence modelled ends with the sixth draw: (7/8)^6 < 1/2 < (7/8)^5
MaxDraws == 6

\* in SpecRewire the frames go on until the tick after the second rewiring
\* check (frame 2 * rewireCheckInterval)
MaxLateFrames == 121

\* in SpecRoundTrip the clock runs long enough for two whole transitions
MaxLateNow == 600

\* the time that passes between two callbacks (ms)
ClockSteps == {150}

\* the jitter of the lattice (px): (Math.random() - 0.5) * baseSpacing * 0.6
Jitter == {0}

\* window.innerWidth x window.innerHeight
WideViewports == {<<1200, 600>>}
NarrowViewports == {<<1000, 260>>}
BareViewports == {<<800, 100>>, <<780, 100>>}
\* low windows: a wide one (rest contentLeft 100), one whose rest contentLeft
\* (60) is a lattice column, one whose left side is a single node, one
\* without left side whose right side is two nodes 104 px apart
MenuViewports == {<<1200, 100>>, <<1120, 100>>, <<850, 100>>, <<800, 100>>}
\* the low window whose right side gets a shortcut
IdleViewports == {<<850, 100>>}
\* windows with few nodes a side: one shortcut a side, a right side with one
\* shortcut next to a single left node, a right side of two nodes too close
\* for a shortcut
SearchViewports == {<<1000, 260>>, <<850, 100>>, <<800, 100>>}
AllViewports == WideViewports \cup NarrowViewports \cup BareViewports \cup MenuViewports
                    \cup IdleViewports \cup SearchViewports

\* the tracked node: offsetX / offsetY = Math.random() * 15 - 7.5 and
\* amplitude = 8 + Math.random() * 12 (hundredths of a pixel), its base
\* position, and the values Math.sin / Math.cos take (tenths)
ProbeOffsets == {-750, 749}
ProbeAmplitudes == {800, 1900}
ProbeBases == {6000}
TrigValues == {-10, 3, 10}

\* poissonRandom: the values Math.random() takes (r / RandDen) and the
\* limits L = Math.exp(-lambda), for lambda = poissonLambda = 0.3 (0.7408),
\* for lambda = ln 2, and for a negative lambda
UniformDraws == {0, 4, 7}
DrawSequences == [1 .. MaxDraws -> UniformDraws]

\* the payloads of menuStateChange (NavigationMenu.openMenu / closeMenu)
MenuEvents == {[isOpen |-> TRUE, menuWidth |-> 320], [isOpen |-> FALSE, menuWidth |-> 0]}
\* the details the handler accepts: isOpen false with a menuWidth left over
AnyMenuEvents == MenuEvents \cup {[isOpen |-> FALSE, menuWidth |-> 320]}

-----------------------------------------------------------------------------
(* Exact rationals <<n, d>>, d > 0, in lowest terms                        *)

Abs(a) == IF a < 0 THEN -a ELSE a

RECURSIVE Gcd(_, _)
Gcd(a, b) == IF b = 0 THEN a ELSE Gcd(b, a % b)

Rat(n, d) ==
    LET s == IF d < 0 THEN -1 ELSE 1
        g == Gcd(Abs(n), Abs(d))
    IN  <<(s * n) \div g, (s * d) \div g>>

RInt(n) == <<n, 1>>
RAdd(a, b) == Rat(a[1] * b[2] + b[1] * a[2], a[2] * b[2])
RSub(a, b) == Rat(a[1] * b[2] - b[1] * a[2], a[2] * b[2])
RMul(a, b) == Rat(a[1] * b[1], a[2] * b[2])
RDiv(a, b) == Rat(a[1] * b[2], a[2] * b[1])
RLt(a, b) == a[1] * b[2] < b[1] * a[2]
RLe(a, b) == a[1] * b[2] <= b[1] * a[2]
RMin(a, b) == IF RLe(a, b) THEN a ELSE b
RMax(a, b) == IF RLe(a, b) THEN b ELSE a

Zero == RInt(0)
One == RInt(1)

\* an integer length in units, as a rational number of pixels
PxOf(u) == Rat(u, UnitsPerPx)

CeilDiv(a, b) == (a + b - 1) \div b

\* the remainder of JavaScript's %, which takes the sign of the dividend
JsRem(a, b) == IF a < 0 THEN -((-a) % b) ELSE a % b

-----------------------------------------------------------------------------
(* Content bounds (init, startBoundaryTransition)                          *)

\* AvailableWidth that subtracts the menu width whether the menu is open or not
AvailableWidthLessMenu(w, mOpen, mWidth) == w - mWidth

AvailableWidth(w, mOpen, mWidth) == IF mOpen THEN w - mWidth ELSE w

\* BoundLeft that forgets the menu
BoundLeftNoMenu(w, mOpen, mWidth) ==
    RMax(Zero, RSub(Rat(w, 2), RInt(contentWidth \div 2 + contentPadding)))

BoundLeft(w, mOpen, mWidth) ==
    RMax(Zero, RSub(Rat(AvailableWidth(w, mOpen, mWidth), 2),
                    RInt(contentWidth \div 2 + contentPadding)))

BoundRight(w, mOpen, mWidth) ==
    RAdd(Rat(AvailableWidth(w, mOpen, mWidth), 2),
         RInt(contentWidth \div 2 + contentPadding))

-----------------------------------------------------------------------------
(* Lattice generation (init)                                               *)

RowsOf(h) == CeilDiv(h * UnitsPerPx, rowHeight) + 2
ColsOf(w) == CeilDiv(w, baseSpacing) + 2

\* SideOf that counts a node on a bound as outside the content
SideOfInclusive(x, w) ==
    LET baseContentLeft == RSub(Rat(w, 2), RInt(contentWidth \div 2 + contentPadding))
        baseContentRight == RAdd(Rat(w, 2), RInt(contentWidth \div 2 + contentPadding))
    IN  IF RLe(PxOf(x), baseContentLeft) THEN "left"
        ELSE IF RLe(baseContentRight, PxOf(x)) THEN "right"
        ELSE "content"

\* side of a node by the menu-closed bounds
SideOf(x, w) ==
    LET baseContentLeft == RSub(Rat(w, 2), RInt(contentWidth \div 2 + contentPadding))
        baseContentRight == RAdd(Rat(w, 2), RInt(contentWidth \div 2 + contentPadding))
    IN  IF RLt(PxOf(x), baseContentLeft) THEN "left"
        ELSE IF RLt(baseContentRight, PxOf(x)) THEN "right"
        ELSE "content"

\* the rows run from -1 to rows - 1, the columns from -1 to cols - 1
BuildLattice(w, h, j) ==
    LET nCols == ColsOf(w) + 1
        nRows == RowsOf(h) + 1
        NodeAt(k) ==
            LET row == (k \div nCols) - 1
                col == (k % nCols) - 1
                x == (col * baseSpacing + JsRem(row, 2) * (baseSpacing \div 2) + j) * UnitsPerPx
                y == row * rowHeight + j * UnitsPerPx
            IN  [id |-> k, baseX |-> x, baseY |-> y, side |-> SideOf(x, w)]
    IN  [i \in 1 .. (nRows * nCols) |-> NodeAt(i - 1)]

-----------------------------------------------------------------------------
(* Shortcut manager: helpers                                               *)

SideNodes(ns, side) == SelectSeq(ns, LAMBDA n : n.side = side)

getBaseDistanceSq(node1, node2) ==
    (node2.baseX - node1.baseX) * (node2.baseX - node1.baseX) +
    (node2.baseY - node1.baseY) * (node2.baseY - node1.baseY)

minDistSq == (spacing * minShortcutDistance) * (spacing * minShortcutDistance)
longDistSq == (spacing * longDistanceThreshold) * (spacing * longDistanceThreshold)

isLongDistance(distSq) == distSq >= longDistSq

countLongShortcutsForSide(S, side) ==
    Cardinality({i \in 1 .. Len(S) : S[i].side = side /\ ~S[i].fadingOut /\ S[i].isLong})

\* getEdgeKey that keeps the order of its arguments
getEdgeKeyOrdered(id1, id2) == <<id1, id2>>

getEdgeKey(id1, id2) == IF id1 < id2 THEN <<id1, id2>> ELSE <<id2, id1>>

ExistingKeys(S) == {getEdgeKey(S[i].sourceId, S[i].targetId) : i \in 1 .. Len(S)}

\* Math.floor(Math.random() * n) for Math.random() = r / RandDen
RandomIndex(r, n) == (r * n) \div RandDen

\* the pairs of draws (for sourceIdx, for targetIdx) of one sampling attempt
RandomPairs(side) ==
    IF side = "left"
    THEN {<<0, 0>>, <<0, 1>>, <<0, 7>>, <<0, 4>>, <<3, 7>>, <<0, 3>>}
    ELSE {<<0, 0>>, <<0, 7>>, <<7, 0>>}

\* the two nodes a pair of draws selects, and their squared base distance
Sampled(sideNodes, d) ==
    LET sourceIdx == RandomIndex(d[1], Len(sideNodes))
        targetIdx == RandomIndex(d[2], Len(sideNodes))
        source == sideNodes[sourceIdx + 1]
        target == sideNodes[targetIdx + 1]
    IN  [same |-> sourceIdx = targetIdx, source |-> source, target |-> target,
         distSq |-> getBaseDistanceSq(source, target)]

\* NewShortcut that makes every shortcut steady
NewShortcutSteady(p, side, opacity, fadingIn, isLong) ==
    [sourceId |-> p.source.id, targetId |-> p.target.id, side |-> side,
     opacity |-> shortcutFadeDuration, fadingOut |-> FALSE, fadingIn |-> FALSE,
     isLong |-> isLong, distSq |-> p.distSq]

NewShortcut(p, side, opacity, fadingIn, isLong) ==
    [sourceId |-> p.source.id, targetId |-> p.target.id, side |-> side,
     opacity |-> opacity, fadingOut |-> FALSE, fadingIn |-> fadingIn,
     isLong |-> isLong, distSq |-> p.distSq]

NumShortcuts(n) == IF (n * shortcutDensityPct) \div 100 > 1 THEN (n * shortcutDensityPct) \div 100 ELSE 1

-----------------------------------------------------------------------------
(* Initial population (buildInitialShortcuts, createShortcutsForSide)      *)
(* A loop's state is c = [list, created, longCreated]; one attempt maps it *)
(* to the state after the attempt, for one pair of draws.                  *)

\* LongAttempt without the test dist < longDist
LongAttemptAnyDistance(c, sideNodes, side, d) ==
    LET p == Sampled(sideNodes, d)
    IN  IF p.same THEN c
        ELSE IF getEdgeKey(p.source.id, p.target.id) \in ExistingKeys(c.list) THEN c
        ELSE [list |-> Append(c.list, NewShortcut(p, side, shortcutFadeDuration, FALSE, TRUE)),
              created |-> c.created + 1, longCreated |-> c.longCreated + 1]

\* one attempt of the first loop: the pair must be long
LongAttempt(c, sideNodes, side, d) ==
    LET p == Sampled(sideNodes, d)
    IN  IF p.same THEN c
        ELSE IF p.distSq < longDistSq THEN c
        ELSE IF getEdgeKey(p.source.id, p.target.id) \in ExistingKeys(c.list) THEN c
        ELSE [list |-> Append(c.list, NewShortcut(p, side, shortcutFadeDuration, FALSE, TRUE)),
              created |-> c.created + 1, longCreated |-> c.longCreated + 1]

\* FillAttempt without the test dist < minDist
FillAttemptNoMinDist(c, sideNodes, side, d) ==
    LET p == Sampled(sideNodes, d)
        isLong == p.distSq >= longDistSq
    IN  IF p.same THEN c
        ELSE IF isLong /\ c.longCreated >= maxLongShortcutsPerSide THEN c
        ELSE IF getEdgeKey(p.source.id, p.target.id) \in ExistingKeys(c.list) THEN c
        ELSE [list |-> Append(c.list, NewShortcut(p, side, shortcutFadeDuration, FALSE, isLong)),
              created |-> c.created + 1,
              longCreated |-> IF isLong THEN c.longCreated + 1 ELSE c.longCreated]

\* one attempt of the second loop: any pair at least minDist apart
FillAttempt(c, sideNodes, side, d) ==
    LET p == Sampled(sideNodes, d)
        isLong == p.distSq >= longDistSq
    IN  IF p.same THEN c
        ELSE IF p.distSq < minDistSq THEN c
        ELSE IF isLong /\ c.longCreated >= maxLongShortcutsPerSide THEN c
        ELSE IF getEdgeKey(p.source.id, p.target.id) \in ExistingKeys(c.list) THEN c
        ELSE [list |-> Append(c.list, NewShortcut(p, side, shortcutFadeDuration, FALSE, isLong)),
              created |-> c.created + 1,
              longCreated |-> IF isLong THEN c.longCreated + 1 ELSE c.longCreated]

\* while (longCreated < minLongShortcutsPerSide && attempts < 100), on the
\* set C of the states the loop can be in after `attempts` attempts; a set
\* that an attempt leaves unchanged stays unchanged for the attempts left
RECURSIVE LongLoop(_, _, _, _)
LongLoop(C, sideNodes, side, attempts) ==
    IF attempts >= longAttempts THEN C
    ELSE LET next == UNION {IF c.longCreated < minLongShortcutsPerSide
                            THEN {LongAttempt(c, sideNodes, side, d) : d \in RandomPairs(side)}
                            ELSE {c} : c \in C}
         IN  IF next = C THEN C ELSE LongLoop(next, sideNodes, side, attempts + 1)

\* while (created < numShortcuts && attempts < numShortcuts * 10)
RECURSIVE FillLoop(_, _, _, _)
FillLoop(C, sideNodes, side, attempts) ==
    IF attempts >= NumShortcuts(Len(sideNodes)) * 10 THEN C
    ELSE LET next == UNION {IF c.created < NumShortcuts(Len(sideNodes))
                            THEN {FillAttempt(c, sideNodes, side, d) : d \in RandomPairs(side)}
                            ELSE {c} : c \in C}
         IN  IF next = C THEN C ELSE FillLoop(next, sideNodes, side, attempts + 1)

\* the shortcut lists createShortcutsForSide can leave, starting from S
createShortcutsForSide(S, sideNodes, side) ==
    IF Len(sideNodes) < 2 THEN {S}
    ELSE LET start == {[list |-> S, created |-> 0, longCreated |-> 0]}
             afterLong == LongLoop(start, sideNodes, side, 0)
         IN  {c.list : c \in FillLoop(afterLong, sideNodes, side, 0)}

buildInitialShortcuts(ns) ==
    UNION {createShortcutsForSide(L, SideNodes(ns, "right"), "right") :
             L \in createShortcutsForSide(<<>>, SideNodes(ns, "left"), "left")}

\* init() per viewport and jitter: the lattice and the populations it can get
LatticeOf == [vp \in AllViewports |-> [j \in Jitter |-> BuildLattice(vp[1], vp[2], j)]]
PopulationsOf == [vp \in AllViewports |-> [j \in Jitter |-> buildInitialShortcuts(LatticeOf[vp][j])]]

-----------------------------------------------------------------------------
(* Stochastic rewiring (createSingleShortcut, checkAndSwapShortcuts)       *)

Continue == [continue |-> TRUE]

\* SingleAttempt without the test isLong && !canAddLong
SingleAttemptNoLongCap(S, sideNodes, side, preferLong, attempts, d) ==
    LET p == Sampled(sideNodes, d)
        currentLongCount == countLongShortcutsForSide(S, side)
        needsLong == currentLongCount < minLongShortcutsPerSide
        isLong == p.distSq >= longDistSq
    IN  IF p.same THEN Continue
        ELSE IF p.distSq < minDistSq THEN Continue
        ELSE IF needsLong /\ ~isLong THEN Continue
        ELSE IF preferLong /\ ~isLong /\ 2 * attempts < maxAttempts THEN Continue
        ELSE IF ~preferLong /\ isLong /\ 2 * attempts < maxAttempts THEN Continue
        ELSE IF getEdgeKey(p.source.id, p.target.id) \in ExistingKeys(S) THEN Continue
        ELSE NewShortcut(p, side, 0, TRUE, isLong)

\* the body of createSingleShortcut's loop at attempt number `attempts`
\* (already incremented), for one pair of draws: a new shortcut or Continue
SingleAttempt(S, sideNodes, side, preferLong, attempts, d) ==
    LET p == Sampled(sideNodes, d)
        currentLongCount == countLongShortcutsForSide(S, side)
        canAddLong == currentLongCount < maxLongShortcutsPerSide
        needsLong == currentLongCount < minLongShortcutsPerSide
        isLong == p.distSq >= longDistSq
    IN  IF p.same THEN Continue
        ELSE IF p.distSq < minDistSq THEN Continue
        ELSE IF isLong /\ ~canAddLong THEN Continue
        ELSE IF needsLong /\ ~isLong THEN Continue
        ELSE IF preferLong /\ ~isLong /\ 2 * attempts < maxAttempts THEN Continue
        ELSE IF ~preferLong /\ isLong /\ 2 * attempts < maxAttempts THEN Continue
        ELSE IF getEdgeKey(p.source.id, p.target.id) \in ExistingKeys(S) THEN Continue
        ELSE NewShortcut(p, side, 0, TRUE, isLong)

\* while (attempts < maxAttempts): what the loop can return from here on
RECURSIVE SingleLoop(_, _, _, _, _)
SingleLoop(S, sideNodes, side, preferLong, attempts) ==
    IF attempts >= maxAttempts THEN {Null}
    ELSE LET outs == {SingleAttempt(S, sideNodes, side, preferLong, attempts + 1, d) :
                        d \in RandomPairs(side)}
         IN  (outs \ {Continue}) \cup
             (IF Continue \in outs
              THEN SingleLoop(S, sideNodes, side, preferLong, attempts + 1)
              ELSE {})

\* the values createSingleShortcut(side, preferLong) can return
createSingleShortcut(S, ns, side, preferLong) ==
    LET sideNodes == SideNodes(ns, side)
    IN  IF Len(sideNodes) < 2 THEN {Null}
        ELSE SingleLoop(S, sideNodes, side, preferLong, 0)

-----------------------------------------------------------------------------
(* The sampling attempts of the searches                                   *)

\* LongContinues that gives up one attempt early
LongContinuesOneLess(c, attempts) ==
    c.longCreated < minLongShortcutsPerSide /\ attempts < longAttempts - 1

\* while (longCreated < this.minLongShortcutsPerSide && attempts < 100)
LongContinues(c, attempts) ==
    c.longCreated < minLongShortcutsPerSide /\ attempts < longAttempts

\* while (created < numShortcuts && attempts < numShortcuts * 10)
FillContinues(c, sideNodes, attempts) ==
    c.created < NumShortcuts(Len(sideNodes)) /\ attempts < NumShortcuts(Len(sideNodes)) * 10

\* the first loop, attempt by attempt, from the set C of the states it can
\* be in after `attempts` attempts: the states it can end in, each with the
\* attempts made
RECURSIVE LongLoopEnds(_, _, _, _)
LongLoopEnds(C, sideNodes, side, attempts) ==
    LET running == {c \in C : LongContinues(c, attempts)}
        ended == {[c |-> c, attempts |-> attempts] : c \in C \ running}
    IN  IF running = {} THEN ended
        ELSE ended \cup
             LongLoopEnds({LongAttempt(c, sideNodes, side, d) : c \in running, d \in RandomPairs(side)},
                          sideNodes, side, attempts + 1)

\* the second loop likewise: the numbers of attempts it can end with
RECURSIVE FillLoopEnds(_, _, _, _)
FillLoopEnds(C, sideNodes, side, attempts) ==
    LET running == {c \in C : FillContinues(c, sideNodes, attempts)}
    IN  (IF running # C THEN {attempts} ELSE {}) \cup
        (IF running = {} THEN {}
         ELSE FillLoopEnds({FillAttempt(c, sideNodes, side, d) : c \in running, d \in RandomPairs(side)},
                           sideNodes, side, attempts + 1))

\* the numbers of sampling attempts (pairs of Math.random() draws) one call
\* of createShortcutsForSide can make, starting from the list S
SamplingAttempts(S, sideNodes, side) ==
    IF Len(sideNodes) < 2 THEN {0}
    ELSE LET ends == LongLoopEnds({[list |-> S, created |-> 0, longCreated |-> 0]}, sideNodes, side, 0)
             fill == [c \in {e.c : e \in ends} |-> FillLoopEnds({c}, sideNodes, side, 0)]
         IN  UNION {{e.attempts + f : f \in fill[e.c]} : e \in ends}

\* the numbers of sampling attempts one call of createSingleShortcut can
\* make from `attempts` on: while (attempts < maxAttempts) { attempts++; .. }
RECURSIVE SingleLoopEnds(_, _, _, _, _)
SingleLoopEnds(S, sideNodes, side, preferLong, attempts) ==
    IF attempts >= maxAttempts THEN {attempts}
    ELSE LET outs == {SingleAttempt(S, sideNodes, side, preferLong, attempts + 1, d) :
                        d \in RandomPairs(side)}
         IN  (IF outs # {Continue} THEN {attempts + 1} ELSE {}) \cup
             (IF Continue \in outs
              THEN SingleLoopEnds(S, sideNodes, side, preferLong, attempts + 1)
              ELSE {})

\* the limits L of the calls modelled
PoissonLimits == {Rat(463, 625), Rat(1, 2), Rat(3, 2)}

\* PoissonLoop that tests p > L before the first multiplication
RECURSIVE PoissonLoopTestFirst(_, _, _, _)
PoissonLoopTestFirst(L, draws, k, p) ==
    IF RLt(L, p)
    THEN PoissonLoopTestFirst(L, draws, k + 1, RMul(p, Rat(draws[k + 1], RandDen)))
    ELSE [k |-> k, p |-> p]

\* do { k++; p *= Math.random(); } while (p > L), from k and p
RECURSIVE PoissonLoop(_, _, _, _)
PoissonLoop(L, draws, k, p) ==
    LET k1 == k + 1
        p1 == RMul(p, Rat(draws[k1], RandDen))
    IN  IF RLt(L, p1) THEN PoissonLoop(L, draws, k1, p1)
        ELSE [k |-> k1, p |-> p1]

\* poissonRandom for the limit L and the draws given: what it returns, and
\* the multiplications it has performed
PoissonRun(L, draws) ==
    LET out == PoissonLoop(L, draws, 0, One)
    IN  [result |-> out.k - 1, multiplications |-> out.k]

\* a call about to be made
PoissonCalls ==
    {[L |-> L, draws |-> draws, returned |-> FALSE, result |-> 0, multiplications |-> 0] :
        L \in PoissonLimits, draws \in DrawSequences}

\* the values poissonRandom(poissonLambda) can return, up to MaxSwaps
poissonRandom == 0 .. MaxSwaps

Min(a, b) == IF a < b THEN a ELSE b

\* the prefixes of length k of the shuffles of a set of indices
ShuffledPrefixes(set, k) ==
    {q \in [1 .. k -> set] : \A i, j \in 1 .. k : i # j => q[i] # q[j]}

\* the shortcuts a side offers for swapping, among the indices `active`
selectSwappable(S, active, side) ==
    LET sideOnes == {i \in active : S[i].side = side}
        longOnes == {i \in sideOnes : S[i].isLong}
        mediumOnes == {i \in sideOnes : ~S[i].isLong}
    IN  IF Cardinality(longOnes) <= minLongShortcutsPerSide /\ mediumOnes # {}
        THEN mediumOnes
        ELSE sideOnes

\* SwapLoop that looks for the replacement on the other side
RECURSIVE SwapLoopOtherSide(_, _, _)
SwapLoopOtherSide(R, ns, toRemove) ==
    IF toRemove = <<>> THEN {R}
    ELSE LET i == Head(toRemove)
             S == R.list
             marked == [S EXCEPT ![i].fadingOut = TRUE]
             other == IF S[i].side = "left" THEN "right" ELSE "left"
             entry == [side |-> S[i].side, isLong |-> S[i].isLong,
                       sourceId |-> S[i].sourceId, targetId |-> S[i].targetId,
                       longBefore |-> countLongShortcutsForSide(S, S[i].side),
                       replaced |-> FALSE]
         IN  UNION {SwapLoopOtherSide(
                        [list |-> IF newShortcut = Null THEN marked
                                  ELSE Append(marked, newShortcut),
                         log |-> Append(R.log, [entry EXCEPT !.replaced = newShortcut # Null])],
                        ns, Tail(toRemove)) :
                      newShortcut \in createSingleShortcut(marked, ns, other, marked[i].isLong)}

\* SwapLoop that marks the shortcut only when a replacement was found
RECURSIVE SwapLoopMarkOnSuccess(_, _, _)
SwapLoopMarkOnSuccess(R, ns, toRemove) ==
    IF toRemove = <<>> THEN {R}
    ELSE LET i == Head(toRemove)
             S == R.list
             marked == [S EXCEPT ![i].fadingOut = TRUE]
             entry == [side |-> S[i].side, isLong |-> S[i].isLong,
                       sourceId |-> S[i].sourceId, targetId |-> S[i].targetId,
                       longBefore |-> countLongShortcutsForSide(S, S[i].side),
                       replaced |-> FALSE]
         IN  UNION {SwapLoopMarkOnSuccess(
                        [list |-> IF newShortcut = Null THEN S
                                  ELSE Append(marked, newShortcut),
                         log |-> Append(R.log, [entry EXCEPT !.replaced = newShortcut # Null])],
                        ns, Tail(toRemove)) :
                      newShortcut \in createSingleShortcut(marked, ns, marked[i].side, marked[i].isLong)}

\* for (const shortcut of toRemove): mark it, then try to replace it.
\* R = [list, log]: the log gets one entry per shortcut marked, with the
\* number of long, not fading-out shortcuts of its side just before the mark
\* and with whether createSingleShortcut returned a replacement for it
RECURSIVE SwapLoop(_, _, _)
SwapLoop(R, ns, toRemove) ==
    IF toRemove = <<>> THEN {R}
    ELSE LET i == Head(toRemove)
             S == R.list
             marked == [S EXCEPT ![i].fadingOut = TRUE]
             entry == [side |-> S[i].side, isLong |-> S[i].isLong,
                       sourceId |-> S[i].sourceId, targetId |-> S[i].targetId,
                       longBefore |-> countLongShortcutsForSide(S, S[i].side),
                       replaced |-> FALSE]
         IN  UNION {SwapLoop([list |-> IF newShortcut = Null THEN marked
                                       ELSE Append(marked, newShortcut),
                              log |-> Append(R.log, [entry EXCEPT !.replaced = newShortcut # Null])],
                             ns, Tail(toRemove)) :
                      newShortcut \in createSingleShortcut(marked, ns, marked[i].side, marked[i].isLong)}

\* what checkAndSwapShortcuts can leave when the Poisson sample is numSwaps
SwapShortcuts(S, ns, numSwaps) ==
    LET active == {i \in 1 .. Len(S) : ~S[i].fadingOut}
        actualSwaps == Min(numSwaps, Cardinality(active))
        allSwappable == selectSwappable(S, active, "left") \cup selectSwappable(S, active, "right")
    IN  IF numSwaps = 0 \/ actualSwaps = 0 \/ allSwappable = {} THEN {[list |-> S, log |-> <<>>]}
        ELSE UNION {SwapLoop([list |-> S, log |-> <<>>], ns, toRemove) :
                      toRemove \in ShuffledPrefixes(allSwappable, Min(actualSwaps, Cardinality(allSwappable)))}

checkAndSwapShortcuts(S, ns) == UNION {SwapShortcuts(S, ns, numSwaps) : numSwaps \in poissonRandom}

-----------------------------------------------------------------------------
(* Fades (updateShortcutFades); opacity counted in steps of 1 / 45         *)

\* FadeOne that never clears fadingIn
FadeOneKeepsFlag(s) ==
    IF s.fadingOut THEN [s EXCEPT !.opacity = @ - 1]
    ELSE IF s.fadingIn
         THEN IF s.opacity + 1 >= shortcutFadeDuration
              THEN [s EXCEPT !.opacity = shortcutFadeDuration]
              ELSE [s EXCEPT !.opacity = @ + 1]
    ELSE s

\* FadeOne whose fade-in stalls one step short of opacity 1
FadeOneStalls(s) ==
    IF s.fadingOut THEN [s EXCEPT !.opacity = @ - 1]
    ELSE IF s.fadingIn
         THEN IF s.opacity + 1 >= shortcutFadeDuration
              THEN s
              ELSE [s EXCEPT !.opacity = @ + 1]
    ELSE s

FadeOne(s) ==
    IF s.fadingOut THEN [s EXCEPT !.opacity = @ - 1]
    ELSE IF s.fadingIn
         THEN IF s.opacity + 1 >= shortcutFadeDuration
              THEN [s EXCEPT !.opacity = shortcutFadeDuration, !.fadingIn = FALSE]
              ELSE [s EXCEPT !.opacity = @ + 1]
    ELSE s

\* FadedAway with < for <=
FadedAwayLate(s) == s.fadingOut /\ s.opacity < 0

\* after its step: spliced out of the list
FadedAway(s) == s.fadingOut /\ s.opacity <= 0

updateShortcutFades(S) ==
    SelectSeq([i \in 1 .. Len(S) |-> FadeOne(S[i])], LAMBDA s : ~FadedAway(s))

-----------------------------------------------------------------------------
(* Boundary transition (startBoundaryTransition, updateBoundaryTransition, *)
(* getNodeTransitionOpacity, getNodeDrawOpacity)                           *)

\* EasedProgress without Math.min(1, ..)
EasedProgressUnclamped(elapsed) ==
    LET rest == RSub(One, Rat(elapsed, boundaryTransitionDuration))
    IN  RSub(One, RMul(rest, RMul(rest, rest)))

\* 1 - Math.pow(1 - Math.min(1, elapsed / boundaryTransitionDuration), 3)
EasedProgress(elapsed) ==
    LET raw == RMin(One, Rat(elapsed, boundaryTransitionDuration))
        rest == RSub(One, raw)
    IN  RSub(One, RMul(rest, RMul(rest, rest)))

\* Interpolate with its end points exchanged
InterpolateSwapped(from, to, progress) ==
    RAdd(to, RMul(RSub(from, to), progress))

Interpolate(from, to, progress) == RAdd(from, RMul(RSub(to, from), progress))

\* a node the shrinking zone is passing: Math.max(0, Math.min(1, dist / fadeWidth))
SweepFade(distFromBoundary) ==
    RMax(Zero, RMin(One, RDiv(distFromBoundary, RInt(fadeWidth))))

\* RevealFade without Math.min(1, fadeIn)
RevealFadeUnclamped(distFromOldBoundary, revealedDistance) ==
    IF RLt(Zero, revealedDistance)
    THEN RDiv(distFromOldBoundary, RMin(RInt(fadeWidth), revealedDistance))
    ELSE Zero

\* a node the growing zone is revealing
RevealFade(distFromOldBoundary, revealedDistance) ==
    IF RLt(Zero, revealedDistance)
    THEN RMin(One, RDiv(distFromOldBoundary, RMin(RInt(fadeWidth), revealedDistance)))
    ELSE Zero

\* the sweep opacity of a node at base x (px), as a rational
TransitionOpacity(x, prevLeft, prevRight, targLeft, targRight, progress) ==
    LET contentCenter == RDiv(RAdd(RAdd(prevLeft, prevRight), RAdd(targLeft, targRight)), RInt(4))
        isLeftSide == RLt(x, contentCenter)
    IN  IF isLeftSide
        THEN LET boundaryMovingLeft == RLt(targLeft, prevLeft)
                 currentBoundary == Interpolate(prevLeft, targLeft, progress)
             IN  IF boundaryMovingLeft
                 THEN IF RLt(x, targLeft) THEN One
                      ELSE IF RLe(targLeft, x) /\ RLt(x, currentBoundary)
                           THEN SweepFade(RSub(currentBoundary, x))
                      ELSE Zero
                 ELSE IF RLt(x, prevLeft) THEN One
                      ELSE IF RLe(prevLeft, x) /\ RLt(x, currentBoundary)
                           THEN RevealFade(RSub(x, prevLeft), RSub(currentBoundary, prevLeft))
                      ELSE Zero
        ELSE LET boundaryMovingLeft == RLt(targRight, prevRight)
                 currentBoundary == Interpolate(prevRight, targRight, progress)
             IN  IF boundaryMovingLeft
                 THEN IF RLt(prevRight, x) THEN One
                      ELSE IF RLt(currentBoundary, x) /\ RLe(x, prevRight)
                           THEN RevealFade(RSub(prevRight, x), RSub(prevRight, currentBoundary))
                      ELSE Zero
                 ELSE IF RLt(targRight, x) THEN One
                      ELSE IF RLt(currentBoundary, x) /\ RLe(x, targRight)
                           THEN SweepFade(RSub(x, currentBoundary))
                      ELSE Zero

getNodeTransitionOpacity(node) ==
    IF ~isTransitioning THEN One
    ELSE TransitionOpacity(PxOf(node.baseX),
                           previousContentLeft, previousContentRight,
                           targetContentLeft, targetContentRight,
                           EasedProgress(now - boundaryTransitionStart))

isNodeVisible(node) ==
    RLt(PxOf(node.baseX), contentLeft) \/ RLt(contentRight, PxOf(node.baseX))

\* getNodeDrawOpacity without the visibility check
getNodeDrawOpacitySweepOnly(node) == getNodeTransitionOpacity(node)

getNodeDrawOpacity(node) ==
    IF isTransitioning THEN getNodeTransitionOpacity(node)
    ELSE IF isNodeVisible(node) THEN One ELSE Zero

-----------------------------------------------------------------------------
(* Drawing the edges (drawConnections, findNearestNeighbor)                *)

\* what a node's x - baseX and y - baseY can be (px): offsetX + sin(..) *
\* amplitude lies within 7.5 + 20, offsetY + cos(..) * amplitude * 0.7
\* within 7.5 + 14
Displacements == {<<-24, 0>>, <<24, 0>>}

\* baseX, baseY (px) of the node whose motion is followed on its own
TrackedBases == {<<0, 0>>}
TrackedNodes(ns) ==
    {i \in 1 .. Len(ns) :
        \E b \in TrackedBases : ns[i].baseX = b[1] * UnitsPerPx /\ ns[i].baseY = b[2] * UnitsPerPx}

\* getNodeDrawOpacity of every node as drawConnections reads it: after
\* updateBoundaryTransition, which leaves the transition flag and
\* contentLeft / contentRight given
DrawOpacities(transitioning, left, right) ==
    [i \in 1 .. Len(nodes) |->
        IF transitioning
        THEN TransitionOpacity(PxOf(nodes[i].baseX),
                               previousContentLeft, previousContentRight,
                               targetContentLeft, targetContentRight,
                               EasedProgress(now - boundaryTransitionStart))
        ELSE IF RLt(PxOf(nodes[i].baseX), left) \/ RLt(right, PxOf(nodes[i].baseX))
             THEN One ELSE Zero]

\* the nodes with opacity > 0
DrawableOf(op) == {i \in DOMAIN op : RLt(Zero, op[i])}

\* the motions followed: the tracked node is displaced by d1, every other
\* node by d2
Motions(tracked) ==
    {[moved |-> m, d1 |-> d1, d2 |-> d2] :
        m \in tracked, d1 \in Displacements, d2 \in Displacements}

\* node.x, node.y of every node (in units) under a motion
LivePositions(ns, motion) ==
    [i \in 1 .. Len(ns) |->
        LET d == IF i = motion.moved THEN motion.d1 ELSE motion.d2
        IN  <<ns[i].baseX + d[1] * UnitsPerPx, ns[i].baseY + d[2] * UnitsPerPx>>]

getCurrentDistanceSq(p1, p2) ==
    (p2[1] - p1[1]) * (p2[1] - p1[1]) + (p2[2] - p1[2]) * (p2[2] - p1[2])

\* localConnectionThreshold = spacing * 1.5, squared, in units
localThresholdSq == ((spacing * 3) \div 2) * ((spacing * 3) \div 2)

\* findNearestNeighbor that looks within the local threshold only
findNearestNeighborLocal(i, op, pos) ==
    LET others == {j \in DOMAIN op : /\ j # i /\ op[j] # Zero
                                      /\ getCurrentDistanceSq(pos[i], pos[j]) < localThresholdSq}
    IN  IF others = {} THEN 0
        ELSE CHOOSE j \in others :
                 \A k \in others :
                     \/ getCurrentDistanceSq(pos[i], pos[j]) < getCurrentDistanceSq(pos[i], pos[k])
                     \/ /\ getCurrentDistanceSq(pos[i], pos[j]) = getCurrentDistanceSq(pos[i], pos[k])
                        /\ j <= k

\* findNearestNeighbor: the first node in the order of this.nodes among the
\* other nodes of non-zero opacity at the least distance; 0 for null
findNearestNeighbor(i, op, pos) ==
    LET others == {j \in DOMAIN op : j # i /\ op[j] # Zero}
    IN  IF others = {} THEN 0
        ELSE CHOOSE j \in others :
                 \A k \in others :
                     \/ getCurrentDistanceSq(pos[i], pos[j]) < getCurrentDistanceSq(pos[i], pos[k])
                     \/ /\ getCurrentDistanceSq(pos[i], pos[j]) = getCurrentDistanceSq(pos[i], pos[k])
                        /\ j <= k

\* the first loop: the pairs of drawable nodes less than the threshold apart
LocalEdges(drawableNodes, pos) ==
    {e \in {{i, j} : i, j \in drawableNodes} :
        \E i, j \in e : i < j /\ getCurrentDistanceSq(pos[i], pos[j]) < localThresholdSq}

\* the second loop: the shortcuts whose endpoints both have non-zero opacity
LinksDrawn(S, op) ==
    {k \in 1 .. Len(S) : op[S[k].sourceId + 1] # Zero /\ op[S[k].targetId + 1] # Zero}

\* connectedNodes after the first two loops: a local edge adds its nodes
\* when its opacity min * 0.2 is > 0.1, a shortcut when min * 0.2 *
\* shortcut.opacity is > 0.05
ConnectedNodes(local, S, op) ==
    UNION {e \in local : \A i \in e : RLt(Rat(1, 2), op[i])}
    \cup UNION {{S[k].sourceId + 1, S[k].targetId + 1} :
                  k \in {l \in LinksDrawn(S, op) :
                            RLt(Rat(1, 4),
                                RMul(RMin(op[S[l].sourceId + 1], op[S[l].targetId + 1]),
                                     Rat(S[l].opacity, shortcutFadeDuration)))}}

\* the third loop: a drawable node that is not in connectedNodes and whose
\* opacity is > 0.3 gets an edge to its nearest neighbour, if it has one
FallbackEdges(drawableNodes, connectedNodes, op, pos) ==
    {{n, findNearestNeighbor(n, op, pos)} :
        n \in {i \in drawableNodes :
                  /\ i \notin connectedNodes
                  /\ RLt(Rat(3, 10), op[i])
                  /\ findNearestNeighbor(i, op, pos) # 0}}

\* drawConnections on the shortcuts S, the opacities op and the motions
\* given: per motion, the drawable nodes and the edges stroked by each of
\* the three loops, as sets of indices into this.nodes; faint are the
\* drawable nodes of opacity <= 0.3
Drawings(ns, S, op, motions) ==
    UNION {UNION {UNION {UNION {
        {[moved |-> m.moved, d1 |-> m.d1, d2 |-> m.d2,
          drawable |-> drawableNodes,
          faint |-> {i \in drawableNodes : RLe(op[i], Rat(3, 10))},
          local |-> local,
          links |-> {{S[k].sourceId + 1, S[k].targetId + 1} : k \in LinksDrawn(S, op)},
          fallback |-> FallbackEdges(drawableNodes, connectedNodes, op, pos)] :
            connectedNodes \in {ConnectedNodes(local, S, op)}} :
            local \in {LocalEdges(drawableNodes, pos)}} :
            pos \in {LivePositions(ns, m)}} :
            drawableNodes \in {DrawableOf(op)}} :
            m \in motions}

-----------------------------------------------------------------------------
(* The animation loop (animate, updateAnimationState)                      *)

\* the live position of a node: base + fixed offset + amplitude * sine for
\* x, and amplitude * 0.7 * cosine for y
\* LiveX that adds to the current position instead of the base position
LiveXFromCurrent(p, s) == p.x + p.offsetX + (s * p.amplitude) \div 10

LiveX(p, s) == p.baseX + p.offsetX + (s * p.amplitude) \div 10
LiveY(p, c) == p.baseY + p.offsetY + (c * p.amplitude * 7) \div 100
MoveNode(p, s, c) == [p EXCEPT !.x = LiveX(p, s), !.y = LiveY(p, c)]

\* the motion fields init() gives a node: x = baseX, y = baseY
NewProbes ==
    {[baseX |-> b, baseY |-> b, offsetX |-> ox, offsetY |-> oy,
      amplitude |-> a, x |-> b, y |-> b] :
        b \in ProbeBases, ox \in ProbeOffsets, oy \in ProbeOffsets, a \in ProbeAmplitudes}

\* listeners registered before the mobile test
ListenersRegisteredEarly == surface # "missing"

\* the listeners are registered at the end of the constructor, after both
\* early returns
ListenersRegistered == surface = "ok"

\* requestAnimationFrame returns a handle no pending callback has
FreshFrameId(queue) == CHOOSE id \in 1 .. (Cardinality(queue) + 1) : id \notin queue

\* AnimateMesh that fades first and runs the rewiring check afterwards
AnimateMeshFadesFirst(animating) ==
    /\ IF animating
       THEN /\ frameCount' = frameCount + 1
            /\ \E R \in (IF (frameCount + 1) % rewireCheckInterval = 0
                          THEN checkAndSwapShortcuts(updateShortcutFades(shortcuts), nodes)
                          ELSE {[list |-> updateShortcutFades(shortcuts), log |-> <<>>]}) :
                 /\ shortcuts' = R.list
                 /\ lastMarked' = R.log
       ELSE /\ UNCHANGED <<frameCount, shortcuts>>
            /\ lastMarked' = <<>>
    /\ IF animating /\ probe # Null
       THEN \E s, c \in TrigValues : probe' = MoveNode(probe, s, c)
       ELSE UNCHANGED probe
    /\ time' = IF animating /\ time # NoTime THEN time + 1 ELSE time

\* AnimateMesh that counts the frame before it tests isAnimating
AnimateMeshCountsAlways(animating) ==
    /\ IF animating
       THEN /\ frameCount' = frameCount + 1
            /\ \E R \in (IF (frameCount + 1) % rewireCheckInterval = 0
                          THEN checkAndSwapShortcuts(shortcuts, nodes)
                          ELSE {[list |-> shortcuts, log |-> <<>>]}) :
                 /\ shortcuts' = updateShortcutFades(R.list)
                 /\ lastMarked' = R.log
       ELSE /\ frameCount' = frameCount + 1
            /\ UNCHANGED shortcuts
            /\ lastMarked' = <<>>
    /\ IF animating /\ probe # Null
       THEN \E s, c \in TrigValues : probe' = MoveNode(probe, s, c)
       ELSE UNCHANGED probe
    /\ time' = IF animating /\ time # NoTime THEN time + 1 ELSE time

\* the part of animate() that this.isAnimating gates: the time accumulator,
\* the frame count, the rewiring check and the fades, and the motion of the
\* nodes
AnimateMesh(animating) ==
    /\ IF animating
       THEN /\ frameCount' = frameCount + 1
            /\ \E R \in (IF (frameCount + 1) % rewireCheckInterval = 0
                          THEN checkAndSwapShortcuts(shortcuts, nodes)
                          ELSE {[list |-> shortcuts, log |-> <<>>]}) :
                 /\ shortcuts' = updateShortcutFades(R.list)
                 /\ lastMarked' = R.log
       ELSE /\ UNCHANGED <<frameCount, shortcuts>>
            /\ lastMarked' = <<>>
    /\ IF animating /\ probe # Null
       THEN \E s, c \in TrigValues : probe' = MoveNode(probe, s, c)
       ELSE UNCHANGED probe
    /\ time' = IF animating /\ time # NoTime THEN time + 1 ELSE time

\* animate(), run with this.isAnimating = animating and the callbacks in
\* `queue` pending: the rewiring check and the fades when animating, the
\* boundary transition always, then the scheduling of the next tick
Animate(animating, queue) ==
    /\ AnimateMesh(animating)
    /\ IF isTransitioning
       THEN LET progress == EasedProgress(now - boundaryTransitionStart)
                left == Interpolate(previousContentLeft, targetContentLeft, progress)
                right == Interpolate(previousContentRight, targetContentRight, progress)
            IN  /\ currentContentLeft' = left
                /\ currentContentRight' = right
                /\ contentLeft' = left
                /\ contentRight' = right
                /\ isTransitioning' = ~RLe(One, progress)
       ELSE UNCHANGED <<currentContentLeft, currentContentRight,
                        contentLeft, contentRight, isTransitioning>>
    /\ IF animating \/ isTransitioning'
       THEN /\ animationFrameId' = FreshFrameId(queue)
            /\ rafQueue' = queue \cup {FreshFrameId(queue)}
       ELSE /\ rafQueue' = queue
            /\ UNCHANGED animationFrameId
    /\ UNCHANGED <<canvasWidth, canvasHeight, nodes, menuVars, now,
                   targetContentLeft, targetContentRight,
                   previousContentLeft, previousContentRight,
                   boundaryTransitionStart, surface, poisson, nav, table>>
    /\ IF drawn = Null THEN UNCHANGED drawn
       ELSE \E op \in {IF isTransitioning
                        THEN LET progress == EasedProgress(now - boundaryTransitionStart)
                             IN  DrawOpacities(~RLe(One, progress),
                                     Interpolate(previousContentLeft, targetContentLeft, progress),
                                     Interpolate(previousContentRight, targetContentRight, progress))
                        ELSE DrawOpacities(FALSE, contentLeft, contentRight)} :
              drawn' \in Drawings(nodes, shortcuts', op,
                                  IF animating THEN Motions({drawn.moved})
                                  ELSE {[moved |-> drawn.moved, d1 |-> drawn.d1, d2 |-> drawn.d2]})

\* the browser runs a pending animation frame callback
Tick ==
    /\ frameCount < MaxFrames
    /\ \E id \in rafQueue : Animate(isAnimating, rafQueue \ {id})
    /\ UNCHANGED <<isAnimating, isPaused, isVisible>>

\* updateAnimationState that stops without cancelAnimationFrame
updateAnimationStateNoCancel(visible, paused) ==
    LET shouldAnimate == visible /\ ~paused
    IN  IF shouldAnimate /\ ~isAnimating
        THEN /\ frameCount < MaxFrames
             /\ isAnimating' = TRUE
             /\ Animate(TRUE, rafQueue)
        ELSE IF ~shouldAnimate /\ isAnimating
        THEN /\ isAnimating' = FALSE
             /\ lastMarked' = <<>>
             /\ UNCHANGED <<rafQueue, animationFrameId,
                            meshVars, menuVars, boundVars, transVars, now, hostVars>>
        ELSE /\ lastMarked' = <<>>
             /\ UNCHANGED <<isAnimating, animationFrameId, rafQueue,
                            meshVars, menuVars, boundVars, transVars, now, hostVars>>

\* updateAnimationState whose shouldAnimate ignores the pause flag
updateAnimationStateIgnoresPause(visible, paused) ==
    LET shouldAnimate == visible
    IN  IF shouldAnimate /\ ~isAnimating
        THEN /\ frameCount < MaxFrames
             /\ isAnimating' = TRUE
             /\ Animate(TRUE, rafQueue)
        ELSE IF ~shouldAnimate /\ isAnimating
        THEN /\ isAnimating' = FALSE
             /\ IF animationFrameId # NoFrame
                THEN /\ rafQueue' = rafQueue \ {animationFrameId}
                     /\ animationFrameId' = NoFrame
                ELSE UNCHANGED <<rafQueue, animationFrameId>>
             /\ lastMarked' = <<>>
             /\ UNCHANGED <<meshVars, menuVars, boundVars, transVars, now, hostVars>>
        ELSE /\ lastMarked' = <<>>
             /\ UNCHANGED <<isAnimating, animationFrameId, rafQueue,
                            meshVars, menuVars, boundVars, transVars, now, hostVars>>

\* updateAnimationState(), once isVisible and isPaused have their new values
updateAnimationState(visible, paused) ==
    LET shouldAnimate == visible /\ ~paused
    IN  IF shouldAnimate /\ ~isAnimating
        THEN /\ frameCount < MaxFrames
             /\ isAnimating' = TRUE
             /\ Animate(TRUE, rafQueue)
        ELSE IF ~shouldAnimate /\ isAnimating
        THEN /\ isAnimating' = FALSE
             /\ IF animationFrameId # NoFrame
                THEN /\ rafQueue' = rafQueue \ {animationFrameId}
                     /\ animationFrameId' = NoFrame
                ELSE UNCHANGED <<rafQueue, animationFrameId>>
             /\ lastMarked' = <<>>
             /\ UNCHANGED <<meshVars, menuVars, boundVars, transVars, now, hostVars>>
        ELSE /\ lastMarked' = <<>>
             /\ UNCHANGED <<isAnimating, animationFrameId, rafQueue,
                            meshVars, menuVars, boundVars, transVars, now, hostVars>>

\* document visibilitychange: document.hidden has flipped
VisibilityChange ==
    /\ ListenersRegistered
    /\ isVisible' = ~isVisible
    /\ UNCHANGED isPaused
    /\ updateAnimationState(~isVisible, isPaused)

\* click on #animationToggle
TogglePause ==
    /\ ListenersRegistered
    /\ isPaused' = ~isPaused
    /\ UNCHANGED isVisible
    /\ updateAnimationState(isVisible, ~isPaused)

\* the side of a node by given bounds
SideByBounds(x, left, right) ==
    IF RLt(PxOf(x), left) THEN "left"
    ELSE IF RLt(right, PxOf(x)) THEN "right"
    ELSE "content"

\* handleMenuStateChange that also reclassifies the nodes by the target bounds
MenuStateChangeReclassify ==
    \E detail \in MenuEvents :
        /\ ListenersRegistered
        /\ menuOpen' = detail.isOpen
        /\ menuWidth' = detail.menuWidth
        /\ targetContentLeft' = BoundLeft(canvasWidth, detail.isOpen, detail.menuWidth)
        /\ targetContentRight' = BoundRight(canvasWidth, detail.isOpen, detail.menuWidth)
        /\ previousContentLeft' = currentContentLeft
        /\ previousContentRight' = currentContentRight
        /\ boundaryTransitionStart' = now
        /\ isTransitioning' = TRUE
        /\ lastMarked' = <<>>
        /\ nodes' = [i \in 1 .. Len(nodes) |->
                       [nodes[i] EXCEPT !.side = SideByBounds(nodes[i].baseX,
                                                               targetContentLeft', targetContentRight')]]
        /\ UNCHANGED <<canvasWidth, canvasHeight, shortcuts, frameCount,
                       loopVars, now, contentLeft, contentRight,
                       currentContentLeft, currentContentRight, hostVars>>

\* handleMenuStateChange that starts the new transition from the old target
MenuStateChangeFromTarget ==
    \E detail \in MenuEvents :
        /\ ListenersRegistered
        /\ menuOpen' = detail.isOpen
        /\ menuWidth' = detail.menuWidth
        /\ targetContentLeft' = BoundLeft(canvasWidth, detail.isOpen, detail.menuWidth)
        /\ targetContentRight' = BoundRight(canvasWidth, detail.isOpen, detail.menuWidth)
        /\ previousContentLeft' = targetContentLeft
        /\ previousContentRight' = targetContentRight
        /\ boundaryTransitionStart' = now
        /\ isTransitioning' = TRUE
        /\ lastMarked' = <<>>
        /\ UNCHANGED <<meshVars, loopVars, now, contentLeft, contentRight,
                       currentContentLeft, currentContentRight, hostVars>>

\* handleMenuStateChange(detail), startBoundaryTransition
handleMenuStateChange(detail) ==
    /\ ListenersRegistered
    /\ menuOpen' = detail.isOpen
    /\ menuWidth' = detail.menuWidth
    /\ targetContentLeft' = BoundLeft(canvasWidth, detail.isOpen, detail.menuWidth)
    /\ targetContentRight' = BoundRight(canvasWidth, detail.isOpen, detail.menuWidth)
    /\ previousContentLeft' = currentContentLeft
    /\ previousContentRight' = currentContentRight
    /\ boundaryTransitionStart' = now
    /\ isTransitioning' = TRUE
    /\ lastMarked' = <<>>
    /\ UNCHANGED <<meshVars, loopVars, now, contentLeft, contentRight,
                   currentContentLeft, currentContentRight, animatorHost>>

\* window menuStateChange, with a detail the navigation menu dispatches
MenuStateChange ==
    \E detail \in MenuEvents : handleMenuStateChange(detail) /\ UNCHANGED nav

\* window menuStateChange with any detail: a close event can carry a width
MenuStateChangeAnyDetail ==
    \E detail \in AnyMenuEvents : handleMenuStateChange(detail) /\ UNCHANGED nav

-----------------------------------------------------------------------------
(* NavigationMenu (src/unnamed/part_001): isOpen, the three ways to        *)
(* operate the menu, and the menuStateChange events they dispatch.         *)
(* nav.events is what the last menu action dispatched, nav.last the detail *)
(* of the last event dispatched so far.                                    *)

\* getMenuWidth(): menuPanel.offsetWidth (px)
MenuWidths == {320, 280}

\* the NavigationMenu after its constructor: isOpen = false, nothing dispatched
NavClosed == [isOpen |-> FALSE, action |-> "none", events |-> <<>>, last |-> Null]

\* window.dispatchEvent: the listeners run before it returns; the animator
\* has one only if its constructor registered it
dispatchEvent(detail) ==
    IF ListenersRegistered
    THEN handleMenuStateChange(detail)
    ELSE UNCHANGED <<meshVars, loopVars, menuVars, boundVars, transVars, now,
                     lastMarked, animatorHost>>

openMenu(action) ==
    \E width \in MenuWidths :
        LET detail == [isOpen |-> TRUE, menuWidth |-> width]
        IN  /\ nav' = [isOpen |-> TRUE, action |-> action, events |-> <<detail>>, last |-> detail]
            /\ dispatchEvent(detail)

\* closeMenu that dispatches no event
closeMenuSilently(action) ==
    /\ nav' = [nav EXCEPT !.isOpen = FALSE, !.action = action, !.events = <<>>]
    /\ UNCHANGED <<meshVars, loopVars, menuVars, boundVars, transVars, now,
                   lastMarked, animatorHost>>

closeMenu(action) ==
    LET detail == [isOpen |-> FALSE, menuWidth |-> 0]
    IN  /\ nav' = [isOpen |-> FALSE, action |-> action, events |-> <<detail>>, last |-> detail]
        /\ dispatchEvent(detail)

\* click on #menuToggle: toggleMenu()
ToggleClick ==
    /\ nav # Null
    /\ IF nav.isOpen THEN closeMenu("toggle") ELSE openMenu("toggle")

\* click on #menuOverlay
OverlayClick ==
    /\ nav # Null
    /\ closeMenu("overlay")

\* keydown Escape
EscapeKey ==
    /\ nav # Null
    /\ IF nav.isOpen
       THEN closeMenu("escape")
       ELSE /\ nav' = [nav EXCEPT !.action = "escape", !.events = <<>>]
            /\ UNCHANGED <<meshVars, loopVars, menuVars, boundVars, transVars, now,
                           lastMarked, animatorHost>>

\* init() that keeps the bounds of before as the previous bounds
ResizeKeepsPrevious(vps) ==
    \E vp \in vps, j \in Jitter :
      \E population \in PopulationsOf[vp][j] :
        /\ ListenersRegistered
        /\ frameCount % ResizeEvery = 1
        /\ canvasWidth' = vp[1]
        /\ canvasHeight' = vp[2]
        /\ nodes' = LatticeOf[vp][j]
        /\ shortcuts' = population
        /\ frameCount' = 0
        /\ contentLeft' = BoundLeft(vp[1], menuOpen, menuWidth)
        /\ contentRight' = BoundRight(vp[1], menuOpen, menuWidth)
        /\ currentContentLeft' = contentLeft'
        /\ currentContentRight' = contentRight'
        /\ targetContentLeft' = contentLeft'
        /\ targetContentRight' = contentRight'
        /\ previousContentLeft' = currentContentLeft
        /\ previousContentRight' = currentContentRight
        /\ lastMarked' = <<>>
        /\ IF probe = Null THEN UNCHANGED probe ELSE probe' \in NewProbes
        /\ UNCHANGED <<loopVars, menuVars, transVars, now, surface, time, poisson, drawn, nav, table>>

\* init() without this.shortcuts = []: the new population is pushed after
\* the shortcuts of the lattice of before
ResizeKeepsShortcuts(vps) ==
    \E vp \in vps, j \in Jitter :
      \E population \in PopulationsOf[vp][j] :
        /\ ListenersRegistered
        /\ frameCount % ResizeEvery = 1
        /\ canvasWidth' = vp[1]
        /\ canvasHeight' = vp[2]
        /\ nodes' = LatticeOf[vp][j]
        /\ shortcuts' = shortcuts \o population
        /\ frameCount' = 0
        /\ contentLeft' = BoundLeft(vp[1], menuOpen, menuWidth)
        /\ contentRight' = BoundRight(vp[1], menuOpen, menuWidth)
        /\ currentContentLeft' = contentLeft'
        /\ currentContentRight' = contentRight'
        /\ targetContentLeft' = contentLeft'
        /\ targetContentRight' = contentRight'
        /\ previousContentLeft' = contentLeft'
        /\ previousContentRight' = contentRight'
        /\ lastMarked' = <<>>
        /\ IF probe = Null THEN UNCHANGED probe ELSE probe' \in NewProbes
        /\ UNCHANGED <<loopVars, menuVars, transVars, now, surface, time, poisson, drawn, nav, table>>

\* window resize: init() for a viewport among vps
Resize(vps) ==
    \E vp \in vps, j \in Jitter :
      \E population \in PopulationsOf[vp][j] :
        /\ ListenersRegistered
        /\ frameCount % ResizeEvery = 1
        /\ canvasWidth' = vp[1]
        /\ canvasHeight' = vp[2]
        /\ nodes' = LatticeOf[vp][j]
        /\ shortcuts' = population
        /\ frameCount' = 0
        /\ contentLeft' = BoundLeft(vp[1], menuOpen, menuWidth)
        /\ contentRight' = BoundRight(vp[1], menuOpen, menuWidth)
        /\ currentContentLeft' = contentLeft'
        /\ currentContentRight' = contentRight'
        /\ targetContentLeft' = contentLeft'
        /\ targetContentRight' = contentRight'
        /\ previousContentLeft' = contentLeft'
        /\ previousContentRight' = contentRight'
        /\ lastMarked' = <<>>
        /\ IF probe = Null THEN UNCHANGED probe ELSE probe' \in NewProbes
        /\ UNCHANGED <<loopVars, menuVars, transVars, now, surface, time, poisson, drawn, nav, table>>

\* time passes between two callbacks; the clock is read only while a
\* transition is in flight, and the model lets it advance only then
AdvanceClock ==
    \E dt \in ClockSteps :
        /\ isTransitioning
        /\ now + dt <= MaxNow
        /\ now' = now + dt
        /\ lastMarked' = <<>>
        /\ UNCHANGED <<meshVars, loopVars, menuVars, boundVars, transVars, hostVars>>

-----------------------------------------------------------------------------
(* Table controls (src/js/table-utils.js): allData, filteredData, the      *)
(* sortState of the headers, the search input and the rows displayed.      *)
(* A text is one lowercase letter, written as its rank 1 .. 3; the search  *)
(* term is a letter or 0 for the empty string, so that                     *)
(* text.includes(term) is term = 0 \/ term = text.                         *)

Letters == 1 .. 3
SearchTerms == {0} \cup Letters
Columns == 0 .. 3

\* the class items of a page; whenSort1 = 0 stands for a missing field
ClassItems ==
    {[id |-> 1, name |-> 2, description |-> 1, instructor |-> 1, when |-> 3, whenSort1 |-> 0, where |-> 1],
     [id |-> 2, name |-> 1, description |-> 1, instructor |-> 1, when |-> 2, whenSort1 |-> 1, where |-> 2],
     [id |-> 3, name |-> 3, description |-> 2, instructor |-> 2, when |-> 1, whenSort1 |-> 2, where |-> 2]}

\* the orders in which a sequence can be arranged
Arrangements(data) ==
    LET n == Len(data)
        orders == {f \in [1 .. n -> 1 .. n] : \A i, j \in 1 .. n : i # j => f[i] # f[j]}
    IN  {[i \in 1 .. n |-> data[f[i]]] : f \in orders}

\* sortData: fields[column], with a[field] || a.when for whenSort1, on a
\* page that is not the archive page (column 3 is 'where')
SortValue(item, column) ==
    CASE column = 0 -> item.name
      [] column = 1 -> item.instructor
      [] column = 2 -> IF item.whenSort1 # 0 THEN item.whenSort1 ELSE item.when
      [] column = 3 -> item.where

\* the comparator of sortData and applyDefaultSort: 1 or -1, never 0
Compare(aVal, bVal, ascending) ==
    IF ascending THEN (IF aVal > bVal THEN 1 ELSE -1)
    ELSE (IF aVal < bVal THEN 1 ELSE -1)

\* Array.prototype.sort with that comparator on the values of a column: an
\* arrangement in which no item comes after one it compares below; items
\* of equal value come in any order
ArraySort(data, column, ascending) ==
    {q \in Arrangements(data) :
        \A i \in 1 .. Len(q) - 1 :
            Compare(SortValue(q[i], column), SortValue(q[i + 1], column), ascending) = -1}

\* the filter of filterTable and of the click handler
MatchesSearch(item, term) ==
    \/ term = 0
    \/ term \in {item.name, item.description, item.instructor, item.when, item.where}

\* defaultSortField is Null for null, or names a field by its column
applyDefaultSort(t, data) ==
    IF t.defaultSortField = Null THEN {data}
    ELSE ArraySort(data, t.defaultSortField.column, t.defaultSortAscending)

\* filterTable(), with the search input holding term: the filter, the
\* default sort if no column is sorted, populateTable
filterTable(t, term) ==
    LET filtered == SelectSeq(t.allData, LAMBDA item : MatchesSearch(item, term))
        anyColumnSorted == \E c \in Columns : t.sortState[c] # "none"
    IN  {[t EXCEPT !.searchTerm = term, !.filteredData = data, !.rows = data] :
            data \in IF anyColumnSorted THEN {filtered} ELSE applyDefaultSort(t, filtered)}

\* sortData(column, ascending): filteredData sorted in place, populateTable
sortData(t, column, ascending) ==
    {[t EXCEPT !.filteredData = data, !.rows = data] :
        data \in ArraySort(t.filteredData, column, ascending)}

\* none -> asc -> desc -> none
NextSortState(state) ==
    IF state = "none" THEN "asc" ELSE IF state = "asc" THEN "desc" ELSE "none"

\* the click handler of a header (initializeControls)
HeaderClicked(t, column) ==
    LET state == NextSortState(t.sortState[column])
        cycled == [t EXCEPT !.sortState = [c \in Columns |-> IF c = column THEN state ELSE "none"]]
        filtered == SelectSeq(t.allData, LAMBDA item : MatchesSearch(item, t.searchTerm))
    IN  IF state = "none"
        THEN {[cycled EXCEPT !.filteredData = data, !.rows = data] :
                 data \in applyDefaultSort(cycled, filtered)}
        ELSE sortData(cycled, column, state = "asc")

\* the tables a page starts with: the data loaded in any order and shown
\* as loaded, or in the default order when the page has set one; the
\* headers at 'none', the search input empty
InitialTables ==
    UNION {UNION {{[allData |-> data, filteredData |-> shown, rows |-> shown,
                    sortState |-> [c \in Columns |-> "none"], searchTerm |-> 0,
                    defaultSortField |-> field, defaultSortAscending |-> TRUE] :
                      shown \in IF field = Null THEN {data}
                                ELSE ArraySort(data, field.column, TRUE)} :
                   field \in {Null, [column |-> 0]}} :
             data \in [1 .. 3 -> ClassItems]}

\* click on a header
HeaderClick ==
    /\ table # Null
    /\ \E column \in Columns : table' \in HeaderClicked(table, column)
    /\ UNCHANGED <<meshVars, loopVars, menuVars, boundVars, transVars, now,
                   lastMarked, surface, probe, time, poisson, drawn, nav>>

\* input event of #searchInput
SearchInput ==
    /\ table # Null
    /\ \E term \in SearchTerms : term # table.searchTerm /\ table' \in filterTable(table, term)
    /\ UNCHANGED <<meshVars, loopVars, menuVars, boundVars, transVars, now,
                   lastMarked, surface, probe, time, poisson, drawn, nav>>

-----------------------------------------------------------------------------
(* The state after the constructor: the fields, init(), the first          *)
(* animate() (frame 1: no rewiring check, nothing fading, no transition,   *)
(* the first tick scheduled); the listeners are the actions above.         *)

ConstructFields(vps, probes, times, calls) ==
    \E vp \in vps, j \in Jitter :
      \E population \in PopulationsOf[vp][j] :
        /\ vp[1] > mobileMaxWidth
        /\ canvasWidth = vp[1]
        /\ canvasHeight = vp[2]
        /\ nodes = LatticeOf[vp][j]
        /\ shortcuts = updateShortcutFades(population)
        /\ frameCount = 1
        /\ isAnimating = TRUE
        /\ isPaused = FALSE
        /\ isVisible = TRUE
        /\ animationFrameId = FreshFrameId({})
        /\ rafQueue = {FreshFrameId({})}
        /\ menuOpen = FALSE
        /\ menuWidth = 0
        /\ contentLeft = BoundLeft(vp[1], FALSE, 0)
        /\ contentRight = BoundRight(vp[1], FALSE, 0)
        /\ currentContentLeft = contentLeft
        /\ currentContentRight = contentRight
        /\ targetContentLeft = contentLeft
        /\ targetContentRight = contentRight
        /\ previousContentLeft = contentLeft
        /\ previousContentRight = contentRight
        /\ isTransitioning = FALSE
        /\ boundaryTransitionStart = NoStart
        /\ now = 0
        /\ lastMarked = <<>>
        /\ surface = "ok"
        /\ probe \in probes
        /\ time \in times
        /\ poisson \in calls

\* the drawing is not followed
ConstructWith(vps, probes, times, calls) ==
    ConstructFields(vps, probes, times, calls) /\ drawn = Null /\ nav = Null /\ table = Null

\* this.time is not tracked
ConstructOn(vps, probes) == ConstructWith(vps, probes, {NoTime}, {Null})

\* no node is tracked
Construct(vps) == ConstructOn(vps, {Null})

\* the constructor returned early: no canvas element, or a mobile viewport.
\* No field after ctx is assigned, init() and animate() are not called and
\* no listener is registered; an unassigned field reads as undefined, which
\* the model writes as the empty or falsy value of the field's type
ConstructInertFields ==
    /\ surface \in {"missing", "mobile"}
    /\ canvasWidth = 0 /\ canvasHeight = 0
    /\ nodes = <<>> /\ shortcuts = <<>> /\ frameCount = 0
    /\ isAnimating = FALSE /\ isPaused = FALSE /\ isVisible = FALSE
    /\ animationFrameId = NoFrame /\ rafQueue = {}
    /\ menuOpen = FALSE /\ menuWidth = 0
    /\ contentLeft = Zero /\ contentRight = Zero
    /\ currentContentLeft = Zero /\ currentContentRight = Zero
    /\ targetContentLeft = Zero /\ targetContentRight = Zero
    /\ previousContentLeft = Zero /\ previousContentRight = Zero
    /\ isTransitioning = FALSE /\ boundaryTransitionStart = NoStart
    /\ now = 0 /\ lastMarked = <<>> /\ probe = Null
    /\ time = NoTime /\ poisson = Null /\ drawn = Null

\* the navigation menu is not followed
ConstructInert == ConstructInertFields /\ nav = Null /\ table = Null

\* the whole animator on viewports whose sides are too small for shortcuts
Init == Construct(BareViewports) \/ ConstructInert
ResizeBare == Resize(BareViewports)
Next == Tick \/ ResizeBare \/ VisibilityChange \/ TogglePause \/ MenuStateChange \/ AdvanceClock
Spec == Init /\ [][Next]_vars

\* the shortcut manager on a wide viewport, always animating
InitMesh == Construct(WideViewports)
ResizeWide == Resize(WideViewports)
NextMesh == Tick \/ ResizeWide
SpecMesh == InitMesh /\ [][NextMesh]_vars

\* fades and boundary sweeps together, on a viewport with one shortcut a side
InitSweep == Construct(NarrowViewports)
MenuStateChangeInWindow ==
    /\ frameCount >= MaxFrames - MenuWindow
    /\ MenuStateChange
NextSweep == Tick \/ MenuStateChangeInWindow \/ AdvanceClock
SpecSweep == InitSweep /\ [][NextSweep]_vars

\* the shortcut manager with the ticks the browser keeps delivering while
\* the page is visible and not paused
NextFade == Tick
\* a step of NextFade, told by its effect on frameCount: it is enabled when
\* Tick is (in SpecFade a tick is always pending) and taken when Tick is
TickTaken == frameCount < MaxFrames /\ frameCount' = frameCount + 1
SpecFade == InitMesh /\ [][NextFade]_vars /\ WF_frameCount(TickTaken)

\* the shortcut manager on a viewport with one shortcut a side, through two
\* rewiring checks
InitRewire == Construct(NarrowViewports)
TickLate ==
    /\ frameCount < MaxLateFrames
    /\ \E id \in rafQueue : Animate(isAnimating, rafQueue \ {id})
    /\ UNCHANGED <<isAnimating, isPaused, isVisible>>
NextRewire == TickLate
SpecRewire == InitRewire /\ [][NextRewire]_vars

\* menu events, clock and resizes on low windows, in the first frames
InitMenu == Construct(MenuViewports)
ResizeMenu == Resize(MenuViewports)
TickEarly == frameCount < MenuFrames /\ Tick
NextMenu == TickEarly \/ ResizeMenu \/ MenuStateChange \/ AdvanceClock
SpecMenu == InitMenu /\ [][NextMenu]_vars

\* the menu opened and closed with whole transitions, on low windows
AdvanceClockLate ==
    \E dt \in ClockSteps :
        /\ isTransitioning
        /\ now + dt <= MaxLateNow
        /\ now' = now + dt
        /\ lastMarked' = <<>>
        /\ UNCHANGED <<meshVars, loopVars, menuVars, boundVars, transVars, hostVars>>
NextRoundTrip == TickEarly \/ MenuStateChangeAnyDetail \/ AdvanceClockLate
SpecRoundTrip == InitMenu /\ [][NextRoundTrip]_vars

\* the navigation menu operated by clicks and keys, next to an animator
\* that listens or to an inert one
InitNav ==
    /\ \/ ConstructFields(MenuViewports, {Null}, {NoTime}, {Null}) /\ drawn = Null
       \/ ConstructInertFields
    /\ nav = NavClosed /\ table = Null
NextNav == TickEarly \/ ResizeMenu \/ AdvanceClock \/ ToggleClick \/ OverlayClick \/ EscapeKey
SpecNav == InitNav /\ [][NextNav]_vars

\* the table controls of a class page, next to an animator left alone
InitTable ==
    /\ ConstructFields(BareViewports, {Null}, {NoTime}, {Null})
    /\ drawn = Null /\ nav = Null
    /\ table \in InitialTables
NextTable == HeaderClick \/ SearchInput
SpecTable == InitTable /\ [][NextTable]_vars

\* the motion of one tracked node, through ticks, pauses and regenerations
MovedProbes == {MoveNode(p, s, c) : p \in NewProbes, s \in TrigValues, c \in TrigValues}
InitMotion == ConstructOn(BareViewports, MovedProbes)
NextMotion == Tick \/ TogglePause \/ ResizeBare
SpecMotion == InitMotion /\ [][NextMotion]_vars

\* the shortcut manager on windows with few nodes a side, always animating
InitSearch == Construct(SearchViewports)
ResizeSearch == Resize(SearchViewports)
NextSearch == Tick \/ ResizeSearch
SpecSearch == InitSearch /\ [][NextSearch]_vars

\* the drawing of each tick through menu transitions, on a low window with
\* the motion of one node near its left content bound followed, and on one
\* whose two visible nodes are more than the local threshold apart
DrawViewports == {<<1120, 100>>, <<800, 100>>}
InitDraw ==
    /\ ConstructFields(DrawViewports, {Null}, {NoTime}, {Null})
    /\ nav = Null /\ table = Null
    /\ \E op \in {DrawOpacities(FALSE, contentLeft, contentRight)} :
          drawn \in Drawings(nodes, shortcuts, op, Motions(TrackedNodes(nodes)))
NextDraw == TickEarly \/ MenuStateChange \/ AdvanceClock
SpecDraw == InitDraw /\ [][NextDraw]_vars

\* poissonRandom on its own: one call per behaviour, on the inputs Init draws
PoissonRandomCall ==
    /\ poisson # Null
    /\ ~poisson.returned
    /\ LET out == PoissonRun(poisson.L, poisson.draws)
       IN  poisson' = [poisson EXCEPT !.returned = TRUE,
                                      !.result = out.result,
                                      !.multiplications = out.multiplications]
    /\ lastMarked' = lastMarked
    /\ UNCHANGED <<meshVars, loopVars, menuVars, boundVars, transVars, now,
                   surface, probe, time, drawn, nav, table>>
InitPoisson == ConstructWith(BareViewports, {Null}, {NoTime}, PoissonCalls)
NextPoisson == PoissonRandomCall
SpecPoisson == InitPoisson /\ [][NextPoisson]_vars

\* pauses, hidden pages and menu transitions in the first frames of a
\* window with a shortcut, with this.time and one node tracked
IdleProbes == {MoveNode(p, 3, 3) : p \in {q \in NewProbes : q.offsetX > 0 /\ q.offsetY > 0 /\ q.amplitude = 800}}
InitIdle == ConstructWith(IdleViewports, IdleProbes, {1}, {Null})
TogglePauseEarly == frameCount < MenuFrames /\ TogglePause
VisibilityChangeEarly == frameCount < MenuFrames /\ VisibilityChange
NextIdle == TickEarly \/ TogglePauseEarly \/ VisibilityChangeEarly
              \/ MenuStateChange \/ AdvanceClock
SpecIdle == InitIdle /\ [][NextIdle]_vars

-----------------------------------------------------------------------------
(* Properties                                                              *)

Sides == {"left", "right"}
Indices(S) == 1 .. Len(S)
EndPoints(s) == {s.sourceId, s.targetId}
IsTickStep == frameCount' = frameCount + 1

\* C1: on each side, the number of long shortcuts that are not fading out
\* never exceeds maxLongShortcutsPerSide.
C1_MaxLongPerSide ==
    \A side \in Sides :
        Cardinality({i \in Indices(shortcuts) :
                       /\ shortcuts[i].side = side
                       /\ shortcuts[i].isLong
                       /\ ~shortcuts[i].fadingOut}) <= maxLongShortcutsPerSide

\* a rewiring check has brought a side back to the maximum with a long
\* replacement that is still fading in
C1_Witness ==
    \E side \in Sides :
        /\ countLongShortcutsForSide(shortcuts, side) = maxLongShortcutsPerSide
        /\ \E i \in Indices(shortcuts) :
              shortcuts[i].side = side /\ shortcuts[i].isLong /\ shortcuts[i].fadingIn

\* C2: after initial population, and after any rewiring check, each side
\* has at least minLongShortcutsPerSide long shortcuts that are not fading out.
C2_MinLongPerSide ==
    \A side \in Sides :
        Cardinality({i \in Indices(shortcuts) :
                       /\ shortcuts[i].side = side
                       /\ shortcuts[i].isLong
                       /\ ~shortcuts[i].fadingOut}) >= minLongShortcutsPerSide

\* C3: a rewiring check never marks fadingOut a long shortcut whose side has,
\* at the moment of the mark, no more than minLongShortcutsPerSide long
\* shortcuts that are not fading out.
C3_NeverMarksProtectedLong ==
    \A k \in Indices(lastMarked) :
        lastMarked[k].isLong => lastMarked[k].longBefore > minLongShortcutsPerSide

\* C4: no two shortcuts of the list, fading or not, join the same unordered
\* pair of nodes.
C4_UniquePairs ==
    \A i, j \in Indices(shortcuts) :
        i # j => EndPoints(shortcuts[i]) # EndPoints(shortcuts[j])

\* a replacement is fading in next to the shortcut it replaces
C4_Witness ==
    /\ \E i \in Indices(shortcuts) : shortcuts[i].fadingOut
    /\ \E i \in Indices(shortcuts) : shortcuts[i].fadingIn
    /\ Len(shortcuts) >= 4

\* C5: a shortcut joins two distinct nodes of its own side, left or right,
\* at least minShortcutDistance * spacing apart at rest, and at least
\* longDistanceThreshold * spacing apart if it is flagged isLong.
C5_EndpointsAndDistance ==
    \A i \in Indices(shortcuts) :
        LET s == shortcuts[i]
            source == nodes[s.sourceId + 1]
            target == nodes[s.targetId + 1]
            dSq == (source.baseX - target.baseX) * (source.baseX - target.baseX)
                   + (source.baseY - target.baseY) * (source.baseY - target.baseY)
        IN  /\ s.sourceId # s.targetId
            /\ s.side \in Sides
            /\ source.side = s.side
            /\ target.side = s.side
            /\ dSq >= (baseSpacing * UnitsPerPx * minShortcutDistance) * (baseSpacing * UnitsPerPx * minShortcutDistance)
            /\ s.isLong =>
                 dSq >= (baseSpacing * UnitsPerPx * longDistanceThreshold) * (baseSpacing * UnitsPerPx * longDistanceThreshold)

\* a medium replacement is fading in on a side that keeps a long shortcut
C5_Witness ==
    \E i, j \in Indices(shortcuts) :
        /\ shortcuts[i].side = shortcuts[j].side
        /\ shortcuts[i].fadingIn /\ ~shortcuts[i].isLong
        /\ shortcuts[j].isLong /\ ~shortcuts[j].fadingOut

\* C6: every shortcut of the list has an opacity within [0, 1] (0 to
\* shortcutFadeDuration fade steps), and every node has a draw opacity
\* within [0, 1], in and out of a transition, whatever the time elapsed.
C6_OpacityInUnitInterval ==
    /\ \A i \in Indices(shortcuts) :
          0 <= shortcuts[i].opacity /\ shortcuts[i].opacity <= shortcutFadeDuration
    /\ \A k \in 1 .. Len(nodes) :
          LET opacity == getNodeDrawOpacity(nodes[k])
          IN  RLe(Zero, opacity) /\ RLe(opacity, One)

\* a transition is sweeping over a node while a shortcut fades in
C6_Witness ==
    /\ isTransitioning
    /\ \E k \in 1 .. Len(nodes) :
          LET opacity == getNodeDrawOpacity(nodes[k])
          IN  RLt(Zero, opacity) /\ RLt(opacity, One)
    /\ \E i \in Indices(shortcuts) :
          /\ shortcuts[i].fadingIn
          /\ 0 < shortcuts[i].opacity /\ shortcuts[i].opacity < shortcutFadeDuration
    /\ \E i \in Indices(shortcuts) : shortcuts[i].fadingOut

\* C7: on every animating tick a shortcut that is fading out loses exactly
\* one fade step and stays marked, or leaves the list if that takes it to 0
\* or below; a shortcut marked on a tick loses its first step on that tick,
\* so it is gone within shortcutFadeDuration ticks; a rewiring check never
\* selects a shortcut that is already fading out.
C7_FadeOutRunsToRemoval ==
    [][IsTickStep =>
         /\ \A i \in Indices(shortcuts) :
               shortcuts[i].fadingOut =>
                 IF shortcuts[i].opacity - 1 <= 0
                 THEN \A j \in Indices(shortcuts') :
                        EndPoints(shortcuts'[j]) # EndPoints(shortcuts[i])
                 ELSE \E j \in Indices(shortcuts') :
                        shortcuts'[j] = [shortcuts[i] EXCEPT !.opacity = @ - 1]
         /\ \A j \in Indices(shortcuts') :
               shortcuts'[j].fadingOut =>
                 /\ 1 <= shortcuts'[j].opacity
                 /\ shortcuts'[j].opacity <= shortcutFadeDuration - 1
                 /\ \E i \in Indices(shortcuts) :
                       /\ EndPoints(shortcuts[i]) = EndPoints(shortcuts'[j])
                       /\ shortcuts[i].opacity = shortcuts'[j].opacity + 1
         /\ \A k \in Indices(lastMarked') :
               \E i \in Indices(shortcuts) :
                   /\ EndPoints(shortcuts[i]) = EndPoints(lastMarked'[k])
                   /\ ~shortcuts[i].fadingOut
    ]_vars

\* a shortcut on its last fade-out step
C7_Witness ==
    \E i \in Indices(shortcuts) : shortcuts[i].fadingOut /\ shortcuts[i].opacity = 1

\* C8: on every animating tick a shortcut that is fading in gains one fade
\* step, and on the step that takes it to 1 its opacity is exactly 1 and
\* fadingIn is cleared; no rewiring check marks it meanwhile; so, ticks
\* continuing, every shortcut that fades in becomes steady.
C8_FadeInReachesSteady ==
    /\ [][IsTickStep =>
            \A i \in Indices(shortcuts) :
                (shortcuts[i].fadingIn /\ ~shortcuts[i].fadingOut) =>
                  \E j \in Indices(shortcuts') :
                      /\ EndPoints(shortcuts'[j]) = EndPoints(shortcuts[i])
                      /\ ~shortcuts'[j].fadingOut
                      /\ IF shortcuts[i].opacity + 1 >= shortcutFadeDuration
                         THEN shortcuts'[j].opacity = shortcutFadeDuration /\ ~shortcuts'[j].fadingIn
                         ELSE shortcuts'[j].opacity = shortcuts[i].opacity + 1 /\ shortcuts'[j].fadingIn
       ]_vars
    /\ (\E i \in Indices(shortcuts) : shortcuts[i].fadingIn)
         ~> (\A i \in Indices(shortcuts) : ~shortcuts[i].fadingIn)

\* a replacement one step before it locks at 1
C8_Witness ==
    \E i \in Indices(shortcuts) :
        /\ shortcuts[i].fadingIn /\ ~shortcuts[i].fadingOut
        /\ shortcuts[i].opacity = shortcutFadeDuration - 1

\* C9: while a boundary transition is in flight a tick is pending, also when
\* the animation is paused or the page hidden.
C9_TransitionKeepsTicking == isTransitioning => rafQueue # {}

\* C10: at most one tick is pending between two callbacks, and while the
\* animator animates exactly one is, the one whose handle it holds.
C10_OnePendingTick ==
    /\ Cardinality(rafQueue) <= 1
    /\ isAnimating => rafQueue = {animationFrameId}

\* the animator has been stopped, paused and hidden, after some frames: the
\* pending tick is cancelled and nothing is pending
C10_Witness ==
    /\ ~isAnimating
    /\ isPaused /\ ~isVisible
    /\ rafQueue = {}
    /\ frameCount > 2

\* a step of handleMenuStateChange: no frame, no clock step, no pause or
\* visibility change
IsMenuStep == UNCHANGED <<frameCount, now, isVisible, isPaused>>
RestContentLeft == BoundLeft(canvasWidth, FALSE, 0)
Elapsed == now - boundaryTransitionStart

\* C11 as stated: on a viewport whose rest contentLeft is positive, with no
\* transition in flight, a menu-open event with a positive menuWidth leaves
\* isTransitioning true and targetContentLeft < previousContentLeft; and the
\* first tick with elapsed >= boundaryTransitionDuration ends the transition.
C11_MenuOpenStartsTransition ==
    /\ [][(/\ IsMenuStep
            /\ RLt(Zero, RestContentLeft)
            /\ ~isTransitioning
            /\ menuOpen' /\ menuWidth' > 0)
           => (isTransitioning' /\ RLt(targetContentLeft', previousContentLeft'))]_vars
    /\ [][(IsTickStep /\ isTransitioning /\ Elapsed >= boundaryTransitionDuration)
           => ~isTransitioning']_vars

\* C11 amended: the same, for a menu-open event that arrives while the menu
\* is closed (no transition in flight, so the bounds are at rest).
C11_MenuOpenFromClosed ==
    /\ [][(/\ IsMenuStep
            /\ RLt(Zero, RestContentLeft)
            /\ ~isTransitioning /\ ~menuOpen
            /\ menuOpen' /\ menuWidth' > 0)
           => (isTransitioning' /\ RLt(targetContentLeft', previousContentLeft'))]_vars
    /\ [][(IsTickStep /\ isTransitioning /\ Elapsed >= boundaryTransitionDuration)
           => ~isTransitioning']_vars

\* the menu has opened on the 1200 px viewport and the full duration has passed
C11_Witness ==
    /\ canvasWidth = 1200
    /\ menuOpen /\ isTransitioning
    /\ previousContentLeft = RestContentLeft
    /\ RLt(targetContentLeft, previousContentLeft)
    /\ Elapsed >= boundaryTransitionDuration

\* the binary opacity of a node for the target bounds
TargetOpacity(node) ==
    IF RLt(PxOf(node.baseX), targetContentLeft) \/ RLt(targetContentRight, PxOf(node.baseX))
    THEN One ELSE Zero

\* C12: in a transition still flagged whose elapsed time has reached the
\* duration, the sweep opacity of every node is the binary opacity for the
\* target bounds.
C12_SweepConvergesToBinary ==
    (isTransitioning /\ Elapsed >= boundaryTransitionDuration) =>
        \A k \in 1 .. Len(nodes) :
            getNodeTransitionOpacity(nodes[k]) = TargetOpacity(nodes[k])

\* C13: a menu-state event whose target bounds equal the current bounds
\* starts no transition: isTransitioning and the start time are unchanged.
C13_NoTransitionWithoutChange ==
    [][(/\ IsMenuStep
        /\ ~isTransitioning
        /\ targetContentLeft' = currentContentLeft
        /\ targetContentRight' = currentContentRight)
       => (~isTransitioning' /\ boundaryTransitionStart' = boundaryTransitionStart)]_vars

\* C14: an instance whose constructor found no canvas, or a mobile viewport,
\* is inert: no tick is pending, no handler can run (no listener answers a
\* resize, visibility, pause or menu event), and every field is as the
\* constructor left it.
C14_InertInstance ==
    surface # "ok" =>
        /\ rafQueue = {}
        /\ ~ENABLED Next
        /\ nodes = <<>> /\ shortcuts = <<>> /\ frameCount = 0
        /\ ~isAnimating /\ ~isTransitioning
        /\ animationFrameId = NoFrame

\* an inert instance on a mobile viewport, and one without canvas
C14_Witness == surface = "mobile" /\ rafQueue = {} /\ nodes = <<>>

\* C17 as stated: after every animating tick (frameCount > 0: one has run
\* since the nodes were generated) the live position of a node is within
\* its amplitude of its base position, on both axes.
C17_WithinAmplitudeOfBase ==
    (probe # Null /\ frameCount > 0) =>
        /\ Abs(probe.x - probe.baseX) <= probe.amplitude
        /\ Abs(probe.y - probe.baseY) <= probe.amplitude

\* C17 amended: the live position is within the amplitude (0.7 of it for y)
\* of the base position displaced by the node's fixed offset.
C17_WithinAmplitudeOfOffsetBase ==
    (probe # Null /\ frameCount > 0) =>
        /\ Abs(probe.x - (probe.baseX + probe.offsetX)) <= probe.amplitude
        /\ 10 * Abs(probe.y - (probe.baseY + probe.offsetY)) <= 7 * probe.amplitude

\* after some ticks a node with a fixed offset is farther from its base
\* position than its amplitude
C17_Witness ==
    /\ probe # Null
    /\ frameCount > 2
    /\ probe.offsetX # 0
    /\ Abs(probe.x - probe.baseX) > probe.amplitude
    /\ Abs(probe.x - (probe.baseX + probe.offsetX)) = probe.amplitude

-----------------------------------------------------------------------------
(* Initial population of a side with nothing to connect                    *)

\* a side with fewer than 2 nodes, or with exactly 2 nodes closer than
\* minShortcutDistance * spacing
SideTooSmall(ns, side) ==
    LET sideNodes == SideNodes(ns, side)
    IN  \/ Len(sideNodes) < 2
        \/ Len(sideNodes) = 2 /\ getBaseDistanceSq(sideNodes[1], sideNodes[2]) < minDistSq

SideShortcuts(S, side) == SelectSeq(S, LAMBDA sc : sc.side = side)

\* C15: right after init, a side with fewer than 2 nodes, or with exactly 2
\* nodes closer than minShortcutDistance * spacing, has no shortcut, and
\* populating that side on top of the list the other side got returns that
\* list unchanged.
C15_SmallSideGetsNoShortcut ==
    frameCount = 0 /\ surface = "ok" =>
        \A side \in {"left", "right"} :
            SideTooSmall(nodes, side) =>
                /\ SideShortcuts(shortcuts, side) = <<>>
                /\ createShortcutsForSide(shortcuts, SideNodes(nodes, side), side) = {shortcuts}

\* init left a left side of a single node next to a right side that got a
\* shortcut
C15_Witness ==
    /\ frameCount = 0
    /\ Len(SideNodes(nodes, "left")) = 1
    /\ SideShortcuts(shortcuts, "left") = <<>>
    /\ SideShortcuts(shortcuts, "right") # <<>>

-----------------------------------------------------------------------------
(* A rewiring check whose search for a replacement fails                   *)

\* the shortcuts the fades of this tick remove: those fading out before the
\* tick or marked by its check, on their last fade step
RemovedThisTick ==
    {i \in Indices(shortcuts) :
        /\ shortcuts[i].opacity - 1 <= 0
        /\ \/ shortcuts[i].fadingOut
           \/ \E k \in Indices(lastMarked') : EndPoints(lastMarked'[k]) = EndPoints(shortcuts[i])}

\* C16: on a tick whose rewiring check selected shortcuts, every selected
\* shortcut is fading out afterwards (or was removed on its last fade step),
\* whether createSingleShortcut returned a replacement for it or null, also
\* those selected after one whose replacement failed; and the list grows by
\* exactly one shortcut per replacement found, none for a null.
C16_FailedReplacementStillMarks ==
    [][IsTickStep /\ lastMarked' # <<>> =>
         /\ \A k \in Indices(lastMarked') :
               \E i \in Indices(shortcuts) :
                   /\ EndPoints(shortcuts[i]) = EndPoints(lastMarked'[k])
                   /\ \/ i \in RemovedThisTick
                      \/ \E j \in Indices(shortcuts') :
                            /\ EndPoints(shortcuts'[j]) = EndPoints(shortcuts[i])
                            /\ shortcuts'[j].fadingOut
         /\ Len(shortcuts') = Len(shortcuts) - Cardinality(RemovedThisTick)
                                + Cardinality({k \in Indices(lastMarked') : lastMarked'[k].replaced})
    ]_vars

\* a check that selected two shortcuts, found no replacement for the first
\* and left both fading out
C16_Witness ==
    /\ Len(lastMarked) = 2
    /\ ~lastMarked[1].replaced
    /\ \A k \in Indices(lastMarked) :
          \E j \in Indices(shortcuts) :
              EndPoints(shortcuts[j]) = EndPoints(lastMarked[k]) /\ shortcuts[j].fadingOut

-----------------------------------------------------------------------------
(* Regeneration (init): the nodes and the bounds                           *)

\* a step that runs init(): the frame counter returns to 0
IsInitStep == frameCount # 0 /\ frameCount' = 0

\* C18: a step that is not a regeneration (a tick with or without rewiring
\* check, a pause or visibility change, a menu-state event, time passing)
\* leaves the sequence of nodes as it is: the same nodes in the same order,
\* each with its id, baseX, baseY and side.
C18_NodesFixedBetweenRegenerations ==
    [][~IsInitStep => nodes' = nodes]_vars

\* some frames in, a transition is moving the right bound and has taken it
\* to the left of a node that is still classified as content
C18_Witness ==
    /\ isTransitioning
    /\ frameCount > 1
    /\ currentContentRight # previousContentRight
    /\ currentContentRight # targetContentRight
    /\ \E k \in 1 .. Len(nodes) :
          /\ nodes[k].side = "content"
          /\ RLt(currentContentRight, PxOf(nodes[k].baseX))

\* the bounds init() gives a closed menu
ClosedMenuBounds ==
    /\ contentLeft = BoundLeft(canvasWidth, FALSE, 0)
    /\ contentRight = BoundRight(canvasWidth, FALSE, 0)

\* C19: when contentLeft and contentRight are the bounds of the closed menu
\* (as init() leaves them with the menu closed; the open menu gives another
\* contentRight), every node classified left has its baseX below
\* contentLeft and every node classified right has it above contentRight.
C19_SidesOutsideContent ==
    (surface = "ok" /\ ClosedMenuBounds) =>
        \A k \in 1 .. Len(nodes) :
            /\ nodes[k].side = "left" => RLt(PxOf(nodes[k].baseX), contentLeft)
            /\ nodes[k].side = "right" => RLt(contentRight, PxOf(nodes[k].baseX))

\* a lattice with a node exactly on contentLeft, classified as content, next
\* to nodes classified left and right
C19_Witness ==
    /\ ClosedMenuBounds
    /\ RLt(Zero, contentLeft)
    /\ \E k \in 1 .. Len(nodes) :
          PxOf(nodes[k].baseX) = contentLeft /\ nodes[k].side = "content"
    /\ \E k \in 1 .. Len(nodes) : nodes[k].side = "left"
    /\ \E k \in 1 .. Len(nodes) : nodes[k].side = "right"

\* C20: every run of init() leaves contentLeft and contentRight at the
\* values BoundLeft and BoundRight give for the canvas width and the menu
\* state of that moment, and the current, target and previous bounds equal
\* to them, whatever the state before.
C20_InitBoundsDeterministic ==
    [][IsInitStep =>
         /\ contentLeft' = BoundLeft(canvasWidth', menuOpen', menuWidth')
         /\ contentRight' = BoundRight(canvasWidth', menuOpen', menuWidth')
         /\ currentContentLeft' = contentLeft' /\ currentContentRight' = contentRight'
         /\ targetContentLeft' = contentLeft' /\ targetContentRight' = contentRight'
         /\ previousContentLeft' = contentLeft' /\ previousContentRight' = contentRight'
    ]_vars

\* init() has run in the middle of a transition to the open menu: the bounds
\* are those of the open menu, all equal, and the transition is still flagged
C20_Witness ==
    /\ frameCount = 0
    /\ menuOpen /\ isTransitioning
    /\ contentRight = BoundRight(canvasWidth, TRUE, menuWidth)
    /\ contentRight # BoundRight(canvasWidth, FALSE, 0)
    /\ currentContentRight = contentRight
    /\ targetContentRight = contentRight
    /\ previousContentRight = contentRight

-----------------------------------------------------------------------------
(* Loop control: visibility and pause                                      *)

\* C21: isAnimating equals (isVisible and not isPaused) after every
\* visibility-change and pause-toggle callback, so in every state; a
\* visibility change leaves the pause flag alone and a pause toggle leaves
\* the visibility flag alone; and animation resumes only into a state that
\* is visible and not paused.
C21_AnimatingIffVisibleAndNotPaused ==
    /\ [](isAnimating = (isVisible /\ ~isPaused))
    /\ [][(isVisible' # isVisible => isPaused' = isPaused)
           /\ (isPaused' # isPaused => isVisible' = isVisible)
           /\ (~isAnimating /\ isAnimating' => isVisible' /\ ~isPaused')]_vars

\* the page is hidden and not paused, after frames have run: the animation
\* is suspended by the visibility alone
C21_Witness ==
    /\ surface = "ok"
    /\ ~isVisible /\ ~isPaused /\ ~isAnimating
    /\ frameCount > 2

-----------------------------------------------------------------------------
(* poissonRandom                                                           *)

\* the product of the first j draws
RECURSIVE PrefixProduct(_, _)
PrefixProduct(draws, j) ==
    IF j = 0 THEN One ELSE RMul(PrefixProduct(draws, j - 1), Rat(draws[j], RandDen))

\* the multiplications the loop needs: the first j >= 1 whose product of j
\* draws is not above L
MultiplicationsNeeded(L, draws) ==
    CHOOSE j \in 1 .. Len(draws) :
        /\ RLe(PrefixProduct(draws, j), L)
        /\ \A i \in 1 .. (j - 1) : RLt(L, PrefixProduct(draws, i))

\* C22: poissonRandom returns a non-negative integer, the number of
\* multiplications it performed minus one, and it performs at least one:
\* as many as it takes for the product of the draws to be at most L.
C22_PoissonNonNegative ==
    (poisson # Null /\ poisson.returned) =>
        /\ poisson.result \in Nat
        /\ poisson.multiplications >= 1
        /\ poisson.result = poisson.multiplications - 1
        /\ poisson.multiplications = MultiplicationsNeeded(poisson.L, poisson.draws)

\* a call with a limit above 1 (negative lambda) has returned 0 after its
\* one multiplication
C22_Witness ==
    /\ poisson # Null /\ poisson.returned
    /\ RLt(One, poisson.L)
    /\ poisson.draws[1] > 0
    /\ poisson.result = 0 /\ poisson.multiplications = 1

-----------------------------------------------------------------------------
(* animate() while the animation is suspended                              *)

\* C23: animate() run while isAnimating is false leaves this.time,
\* frameCount, the shortcut list and the live position of the tracked node
\* as they are: in no state with isAnimating false has the part of
\* animate() that writes them an outcome that changes one of them (the
\* rest of animate() writes the bounds, the transition flag and the handle
\* of the next tick).
C23_IdleTickKeepsMesh ==
    (surface = "ok" /\ ~isAnimating) =>
        ~ENABLED (AnimateMesh(isAnimating) /\ (\/ time' # time
                                                \/ frameCount' # frameCount
                                                \/ shortcuts' # shortcuts
                                                \/ probe' # probe))

\* the animation is suspended in the middle of a transition, some frames
\* in, with a shortcut in the list and a node away from its base position
C23_Witness ==
    /\ ~isAnimating /\ isTransitioning
    /\ time > 1 /\ frameCount > 1
    /\ probe # Null /\ probe.x # probe.baseX
    /\ shortcuts # <<>>
    /\ Elapsed > 0
    /\ ENABLED AnimateMesh(isAnimating)

-----------------------------------------------------------------------------
(* The schedule of the rewiring check                                      *)

\* the list with the shortcuts the step's check selected marked fadingOut
MarkedByCheck ==
    [i \in Indices(shortcuts) |->
        IF \E k \in Indices(lastMarked') : EndPoints(lastMarked'[k]) = EndPoints(shortcuts[i])
        THEN [shortcuts[i] EXCEPT !.fadingOut = TRUE]
        ELSE shortcuts[i]]

\* C24: an animating tick whose incremented frameCount is not a multiple of
\* rewireCheckInterval leaves the list faded only and marks nothing; one
\* whose incremented frameCount is a multiple leaves the list with the
\* selected shortcuts marked and then faded (a marked shortcut has lost its
\* first fade step), followed by one replacement per replacement found,
\* each one fade step in (the check ran before the fades); so shortcuts
\* are marked on frames 60, 120, .. counted from the last init() only.
C24_CheckEveryInterval ==
    [][IsTickStep =>
         IF frameCount' % rewireCheckInterval = 0
         THEN LET old == updateShortcutFades(MarkedByCheck)
                  added == Cardinality({k \in Indices(lastMarked') : lastMarked'[k].replaced})
              IN  /\ Len(shortcuts') = Len(old) + added
                  /\ SubSeq(shortcuts', 1, Len(old)) = old
                  /\ \A j \in (Len(old) + 1) .. Len(shortcuts') :
                        /\ shortcuts'[j].opacity = 1
                        /\ shortcuts'[j].fadingIn /\ ~shortcuts'[j].fadingOut
         ELSE /\ shortcuts' = updateShortcutFades(shortcuts)
              /\ lastMarked' = <<>>
    ]_vars

\* the tick of frame 60 has run a check that swapped a shortcut: the
\* replacement is one fade step in, the marked shortcut one step out
C24_Witness ==
    /\ frameCount = rewireCheckInterval
    /\ lastMarked # <<>>
    /\ \E j \in Indices(shortcuts) : shortcuts[j].fadingIn /\ shortcuts[j].opacity = 1
    /\ \E j \in Indices(shortcuts) :
          shortcuts[j].fadingOut /\ shortcuts[j].opacity = shortcutFadeDuration - 1

-----------------------------------------------------------------------------
(* The number of shortcuts of a side                                       *)

\* the shortcuts of a side that are not fading out
ActiveOfSide(S, side) == {i \in Indices(S) : S[i].side = side /\ ~S[i].fadingOut}

\* the shortcuts of a side a step has added: those whose pair was not in the list
AddedOfSide(side) ==
    {j \in Indices(shortcuts') :
        /\ shortcuts'[j].side = side
        /\ \A i \in Indices(shortcuts) : EndPoints(shortcuts[i]) # EndPoints(shortcuts'[j])}

\* C25: on each side the shortcuts that are not fading out never outnumber
\* the side's target max(1, floor(sideNodeCount * shortcutDensity)); and a
\* tick adds to a side at most as many shortcuts as its check marked
\* fadingOut on that side.
C25_ActiveWithinTarget ==
    /\ [](\A side \in Sides :
            Cardinality(ActiveOfSide(shortcuts, side))
                <= NumShortcuts(Len(SideNodes(nodes, side))))
    /\ [][IsTickStep =>
            \A side \in Sides :
                Cardinality(AddedOfSide(side))
                    <= Cardinality({k \in Indices(lastMarked') : lastMarked'[k].side = side})]_vars

\* a side is at its target after a check has replaced one of its shortcuts
C25_Witness ==
    \E side \in Sides :
        /\ Cardinality(ActiveOfSide(shortcuts, side)) = NumShortcuts(Len(SideNodes(nodes, side)))
        /\ NumShortcuts(Len(SideNodes(nodes, side))) > 1
        /\ \E i \in Indices(shortcuts) : shortcuts[i].side = side /\ shortcuts[i].fadingOut
        /\ \E i \in Indices(shortcuts) : shortcuts[i].side = side /\ shortcuts[i].fadingIn

-----------------------------------------------------------------------------
(* How a shortcut starts                                                   *)

\* opacity 1, not fading
Steady(s) == s.opacity = shortcutFadeDuration /\ ~s.fadingIn /\ ~s.fadingOut

\* the entries a check has pushed to the list S, in a list it can leave
PushedByCheck(S, list) == {list[j] : j \in (Len(S) + 1) .. Len(list)}

\* C26: as long as no tick has run since init(), every shortcut of the list
\* (all of them created by createShortcutsForSide) is steady: opacity 1,
\* fadingIn false, fadingOut false; and every entry a rewiring check can
\* push to the list, before the fade step of its tick, has opacity 0,
\* fadingIn true and fadingOut false.
C26_ShortcutsStart ==
    /\ frameCount = 0 => \A i \in Indices(shortcuts) : Steady(shortcuts[i])
    /\ (frameCount + 1) % rewireCheckInterval = 0 =>
          \A R \in checkAndSwapShortcuts(shortcuts, nodes) :
              /\ Len(R.list) >= Len(shortcuts)
              /\ \A s \in PushedByCheck(shortcuts, R.list) :
                    s.opacity = 0 /\ s.fadingIn /\ ~s.fadingOut

\* a check is about to run on the steady shortcuts of init() on both sides
\* and can push a replacement
C26_Witness ==
    /\ (frameCount + 1) % rewireCheckInterval = 0
    /\ \A side \in Sides : \E i \in Indices(shortcuts) :
          shortcuts[i].side = side /\ Steady(shortcuts[i])
    /\ \E R \in checkAndSwapShortcuts(shortcuts, nodes) : PushedByCheck(shortcuts, R.list) # {}

-----------------------------------------------------------------------------
(* The searches end                                                        *)

\* init() per viewport, jitter and side: the numbers of sampling attempts
\* its call of createShortcutsForSide can make; the call for the left side
\* starts from the empty list, the one for the right side from a list the
\* call for the left side has left
SamplingAttemptsOf ==
    [vp \in SearchViewports |-> [j \in Jitter |-> [side \in Sides |->
        LET ns == LatticeOf[vp][j]
            before == IF side = "left" THEN {<<>>}
                      ELSE createShortcutsForSide(<<>>, SideNodes(ns, "left"), "left")
        IN  UNION {SamplingAttempts(S, SideNodes(ns, side), side) : S \in before}]]]

\* the calls createSingleShortcut(shortcut.side, shortcut.isLong) the check
\* can start with: one per shortcut it can mark first
FirstReplacementCalls ==
    {[list |-> [shortcuts EXCEPT ![i].fadingOut = TRUE],
      side |-> shortcuts[i].side, preferLong |-> shortcuts[i].isLong] :
        i \in {j \in Indices(shortcuts) : ~shortcuts[j].fadingOut}}

\* C27: for the lattice init() has built, each call of
\* createShortcutsForSide makes at most 100 + 10 * target sampling attempts
\* whatever the draws, and 100 + 10 * target when no draw gives a pair it
\* accepts; and each call of createSingleShortcut a rewiring check can
\* start with makes between 1 and 50.
C27_SearchAttemptsBounded ==
    /\ \A j \in Jitter :
          LET vp == <<canvasWidth, canvasHeight>>
          IN  (vp \in SearchViewports /\ frameCount = 0 /\ nodes = LatticeOf[vp][j]) =>
                \A side \in Sides :
                    LET n == Len(SideNodes(nodes, side))
                        counts == SamplingAttemptsOf[vp][j][side]
                    IN  /\ \A a \in counts : a <= 100 + 10 * NumShortcuts(n)
                        /\ n >= 2 => 100 + 10 * NumShortcuts(n) \in counts
    /\ (frameCount + 1) % rewireCheckInterval = 0 =>
          \A call \in FirstReplacementCalls :
              LET counts == SingleLoopEnds(call.list, SideNodes(nodes, call.side),
                                           call.side, call.preferLong, 0)
              IN  \A a \in counts : 1 <= a /\ a <= 50

\* init() has populated both sides, and a check has marked a shortcut for
\* which createSingleShortcut used up its attempts and returned null
C27_Witness ==
    /\ \A side \in Sides : \E i \in Indices(shortcuts) : shortcuts[i].side = side
    /\ \E k \in Indices(lastMarked) : ~lastMarked[k].replaced

-----------------------------------------------------------------------------
(* Draw opacity outside a transition                                       *)

\* C29: while isTransitioning is false getNodeDrawOpacity gives each node
\* exactly 1 if its baseX is < contentLeft or > contentRight and exactly 0
\* otherwise; and a tick that runs with the transition's duration elapsed
\* ends the transition in updateBoundaryTransition, before it draws, so
\* the opacities it draws with (those of the state it leaves) are 0 or 1.
C29_BinaryOutsideTransition ==
    /\ [](~isTransitioning =>
            \A i \in Indices(nodes) :
                getNodeDrawOpacity(nodes[i]) =
                    IF \/ RLt(PxOf(nodes[i].baseX), contentLeft)
                       \/ RLt(contentRight, PxOf(nodes[i].baseX))
                    THEN One ELSE Zero)
    /\ [][(IsTickStep /\ isTransitioning /\ Elapsed >= boundaryTransitionDuration) =>
            /\ ~isTransitioning'
            /\ \A i \in Indices(nodes) : getNodeDrawOpacity(nodes[i])' \in {Zero, One}]_vars

\* a tick has completed a transition to the bounds of an open menu, some
\* nodes are inside the content zone and some outside
C29_Witness ==
    /\ ~isTransitioning /\ menuOpen
    /\ boundaryTransitionStart # NoStart
    /\ Elapsed >= boundaryTransitionDuration
    /\ contentRight = targetContentRight
    /\ \E i \in Indices(nodes) : getNodeDrawOpacity(nodes[i]) = One
    /\ \E i \in Indices(nodes) : getNodeDrawOpacity(nodes[i]) = Zero

-----------------------------------------------------------------------------
(* The bounds at rest                                                      *)

\* C30: contentLeft and contentRight, which the visibility checks read,
\* equal currentContentLeft and currentContentRight in every state; and
\* while isTransitioning is false (after init(), after a resize, after the
\* tick that completes a transition) they also equal targetContentLeft
\* and targetContentRight.
C30_BoundsAtRest ==
    /\ contentLeft = currentContentLeft
    /\ contentRight = currentContentRight
    /\ ~isTransitioning =>
          /\ currentContentLeft = targetContentLeft
          /\ currentContentRight = targetContentRight

\* a transition that has moved both bounds is complete
C30_Witness ==
    /\ ~isTransitioning
    /\ boundaryTransitionStart # NoStart
    /\ previousContentLeft # currentContentLeft
    /\ previousContentRight # currentContentRight
    /\ frameCount > 0

-----------------------------------------------------------------------------
(* Every drawn node has an edge                                            *)

\* the edges the last drawConnections stroked
EdgesDrawn == drawn.local \cup drawn.links \cup drawn.fallback

-----------------------------------------------------------------------------
(* A menu event during a transition                                        *)

\* the bounds lie strictly inside the range between rest and the open menu
MidFlight ==
    /\ currentContentLeft \notin {BoundLeft(canvasWidth, FALSE, 0), BoundLeft(canvasWidth, TRUE, 320)}
    /\ currentContentRight \notin {BoundRight(canvasWidth, FALSE, 0), BoundRight(canvasWidth, TRUE, 320)}

\* C31: a menuStateChange event that arrives while a transition is in
\* flight sets previousContentLeft/Right to currentContentLeft/Right,
\* restarts the timer at the present time and keeps the transition going,
\* and currentContentLeft/Right and contentLeft/Right are the same before
\* and after the event; a tick at that same instant leaves them there.
C31_RestartFromCurrentBounds ==
    /\ [][(IsMenuStep /\ isTransitioning) =>
             /\ previousContentLeft' = currentContentLeft
             /\ previousContentRight' = currentContentRight
             /\ boundaryTransitionStart' = now' /\ now' = now
             /\ isTransitioning'
             /\ currentContentLeft' = currentContentLeft
             /\ currentContentRight' = currentContentRight
             /\ contentLeft' = contentLeft
             /\ contentRight' = contentRight]_vars
    /\ [][(IsTickStep /\ isTransitioning /\ Elapsed = 0) =>
             /\ currentContentLeft' = previousContentLeft
             /\ currentContentRight' = previousContentRight]_vars

\* an event has just restarted a transition from bounds in mid flight, and
\* the new target is not where the bounds are
C31_Witness ==
    /\ isTransitioning
    /\ boundaryTransitionStart = now /\ now > 0
    /\ MidFlight
    /\ previousContentLeft = currentContentLeft
    /\ previousContentRight = currentContentRight
    /\ targetContentRight # currentContentRight

-----------------------------------------------------------------------------
(* The interpolated bounds neither overshoot nor turn back                 *)

Between(a, x, b) == RLe(RMin(a, b), x) /\ RLe(x, RMax(a, b))
Distance(a, b) == RSub(RMax(a, b), RMin(a, b))

\* C32: currentContentLeft lies between previousContentLeft and
\* targetContentLeft (inclusive) in every state, after each
\* updateBoundaryTransition in particular, and likewise on the right; and a
\* tick of a transition never increases the distance of either bound to
\* its target.
C32_NoOvershootNoReversal ==
    /\ [](/\ Between(previousContentLeft, currentContentLeft, targetContentLeft)
           /\ Between(previousContentRight, currentContentRight, targetContentRight))
    /\ [][(IsTickStep /\ isTransitioning) =>
             /\ RLe(Distance(currentContentLeft', targetContentLeft),
                    Distance(currentContentLeft, targetContentLeft))
             /\ RLe(Distance(currentContentRight', targetContentRight),
                    Distance(currentContentRight, targetContentRight))]_vars

\* a transition that started from bounds in mid flight has moved both
\* bounds part of the way to their targets
C32_Witness ==
    /\ isTransitioning
    /\ Elapsed > 0
    /\ previousContentLeft \notin {BoundLeft(canvasWidth, FALSE, 0), BoundLeft(canvasWidth, TRUE, 320)}
    /\ currentContentLeft \notin {previousContentLeft, targetContentLeft}
    /\ currentContentRight \notin {previousContentRight, targetContentRight}

-----------------------------------------------------------------------------
(* The shortcuts refer to the nodes of the present lattice                 *)

\* C33: in every state nodes[id].id = id for every node (ids count from 0,
\* the sequence from 1) and the sourceId and targetId of every shortcut
\* are ids of nodes of the present lattice; and a regeneration leaves a
\* population that buildInitialShortcuts builds for the new lattice from
\* an empty list, all of its shortcuts at opacity 1 with neither flag.
C33_ShortcutsOfPresentLattice ==
    /\ [](/\ \A k \in Indices(nodes) : nodes[k].id = k - 1
           /\ \A i \in Indices(shortcuts) :
                 /\ shortcuts[i].sourceId \in 0 .. Len(nodes) - 1
                 /\ shortcuts[i].targetId \in 0 .. Len(nodes) - 1)
    /\ [][IsInitStep =>
             /\ \E j \in Jitter :
                   /\ nodes' = LatticeOf[<<canvasWidth', canvasHeight'>>][j]
                   /\ shortcuts' \in PopulationsOf[<<canvasWidth', canvasHeight'>>][j]
             /\ \A i \in Indices(shortcuts') : Steady(shortcuts'[i])]_vars

\* the window has just been resized to a lattice with fewer nodes than the
\* widest one, and the new lattice has got shortcuts
C33_Witness ==
    /\ frameCount = 0
    /\ shortcuts # <<>>
    /\ Len(nodes) < Len(LatticeOf[<<1000, 260>>][0])

-----------------------------------------------------------------------------
(* One lifecycle state per shortcut                                        *)

\* C34: no shortcut has fadingIn and fadingOut both true, in any state; the
\* shortcuts a rewiring check selects for removal (those it marks
\* fadingOut) are not fading in when it selects them.
C34_OneLifecycleState ==
    /\ \A i \in Indices(shortcuts) : ~(shortcuts[i].fadingIn /\ shortcuts[i].fadingOut)
    /\ (frameCount + 1) % rewireCheckInterval = 0 =>
          \A i \in Indices(shortcuts) : ~shortcuts[i].fadingOut => ~shortcuts[i].fadingIn

\* the second rewiring check has marked a shortcut and pushed its
\* replacement, and nothing is left of what the first check marked
C34_Witness ==
    /\ frameCount = 2 * rewireCheckInterval
    /\ lastMarked # <<>>
    /\ \E i \in Indices(shortcuts) :
          shortcuts[i].fadingOut /\ shortcuts[i].opacity = shortcutFadeDuration - 1
    /\ \E i \in Indices(shortcuts) : shortcuts[i].fadingIn /\ shortcuts[i].opacity = 1
    /\ \A i \in Indices(shortcuts) :
          shortcuts[i].fadingOut => shortcuts[i].opacity = shortcutFadeDuration - 1

-----------------------------------------------------------------------------
(* Opening and closing the menu                                            *)

\* C35: whenever the menu is closed and no transition is in flight,
\* contentLeft and contentRight have the values init() gives them on this
\* viewport with the menu closed, which are their values before the menu
\* was opened; and a close event sets the target bounds to those values
\* whatever menuWidth it carries.
C35_OpenCloseRoundTrip ==
    /\ []((~menuOpen /\ ~isTransitioning) =>
            /\ contentLeft = BoundLeft(canvasWidth, FALSE, 0)
            /\ contentRight = BoundRight(canvasWidth, FALSE, 0))
    /\ [][(IsMenuStep /\ ~menuOpen') =>
             /\ targetContentLeft' = BoundLeft(canvasWidth, FALSE, 0)
             /\ targetContentRight' = BoundRight(canvasWidth, FALSE, 0)]_vars

\* the menu was opened until the bounds reached the open position, then
\* closed by an event that carried the menu width, and the closing
\* transition is complete
C35_Witness ==
    /\ ~menuOpen /\ ~isTransitioning
    /\ menuWidth = 320
    /\ boundaryTransitionStart >= boundaryTransitionDuration
    /\ previousContentLeft = BoundLeft(canvasWidth, TRUE, 320)
    /\ previousContentRight = BoundRight(canvasWidth, TRUE, 320)
    /\ previousContentLeft # contentLeft
    /\ previousContentRight # contentRight

-----------------------------------------------------------------------------
(* A resize is followed by a tick                                          *)

\* C36: every resize is followed by a tick that draws the regenerated
\* lattice, whatever the pause and visibility state: when init() returns,
\* a requestAnimationFrame callback is pending, so that animate() runs
\* without waiting for a resume.
C36_ResizeIsRedrawn == [][IsInitStep => rafQueue' # {}]_vars

-----------------------------------------------------------------------------
(* The animator follows the navigation menu                                *)

\* the detail of the last menuStateChange event, or what the constructor
\* set (menuOpen = false, menuWidth = 0) before the first one
LastDetail == IF nav.last = Null THEN [isOpen |-> FALSE, menuWidth |-> 0] ELSE nav.last

\* C37: after any sequence of clicks on the toggle, clicks on the overlay
\* and Escape keys, an animator that has its listeners has menuOpen equal
\* to the NavigationMenu's isOpen, menuOpen and menuWidth those of the last
\* event dispatched, and the target bounds computed from them; a toggle or
\* overlay click dispatches exactly one event, with isOpen as the menu now
\* is, and Escape dispatches one if the menu was open and none otherwise.
C37_AnimatorFollowsMenu ==
    /\ [](ListenersRegistered =>
            /\ menuOpen = nav.isOpen
            /\ menuOpen = LastDetail.isOpen
            /\ menuWidth = LastDetail.menuWidth
            /\ targetContentLeft = BoundLeft(canvasWidth, LastDetail.isOpen, LastDetail.menuWidth)
            /\ targetContentRight = BoundRight(canvasWidth, LastDetail.isOpen, LastDetail.menuWidth))
    /\ []((nav.action \in {"toggle", "overlay"}) => (Len(nav.events) = 1))
    /\ []((nav.events # <<>>) => (nav.events[1].isOpen = nav.isOpen))
    /\ [][(nav' # nav /\ nav'.action = "escape") =>
             Len(nav'.events) = IF nav.isOpen THEN 1 ELSE 0]_vars

\* Escape has closed a menu that was opened at the narrower width, on a
\* window resized since the animator was built
C37_Witness ==
    /\ ListenersRegistered
    /\ nav.action = "escape" /\ Len(nav.events) = 1
    /\ ~menuOpen /\ isTransitioning
    /\ previousContentRight = BoundRight(canvasWidth, TRUE, 280)
    /\ frameCount = 0

-----------------------------------------------------------------------------
(* The rows follow the sorted header                                       *)

\* the rows shown are ordered by the values of a column, in one direction
RowsOrdered(rows, column, ascending) ==
    \A i \in 1 .. Len(rows) - 1 :
        IF ascending
        THEN SortValue(rows[i], column) <= SortValue(rows[i + 1], column)
        ELSE SortValue(rows[i], column) >= SortValue(rows[i + 1], column)

\* C38: at most one header has sortState asc or desc, and while a header
\* has, the rows displayed are ordered by its column in that direction,
\* also after an input event of the search field.
C38_RowsFollowSortedHeader ==
    table # Null =>
        /\ Cardinality({c \in Columns : table.sortState[c] # "none"}) <= 1
        /\ \A c \in Columns :
              table.sortState[c] # "none" =>
                  RowsOrdered(table.rows, c, table.sortState[c] = "asc")

=============================================================================
